---- MODULE Spec2Model ----
(***************************************************************************)
(* Model of the openshift-acme route controller                            *)
(* (src/pkg/controllers/route/route.go).                                   *)
(*                                                                         *)
(* One managed Route (the "endpoint") lives in the API server (store).     *)
(* RouteController.handle reads it through the informer cache, which is    *)
(* taken to have caught up with the API server when a key is handled,      *)
(* talks to the ACME CA (orders) and writes the endpoint and the exposer   *)
(* objects (routes, rss, svcs).  One Handle step is one whole invocation   *)
(* of handle(key); what the invocation did is recorded in last.            *)
(*                                                                         *)
(* Conventions                                                             *)
(*  - a Go pointer is a sequence of length 0 (nil) or 1;                   *)
(*  - a Go string that the code tests for emptiness is a sequence, the     *)
(*    empty string being << >>;                                            *)
(*  - time is a natural number; one invocation reads one clock value.      *)
(***************************************************************************)
EXTENDS Integers, Sequences, FiniteSets, TLC

VARIABLES
    now,          \* wall clock (time.Now())
    store,        \* the endpoint as stored by the API server
    routes,       \* exposer Routes in the API server (set of objects)
    rss,          \* exposer ReplicaSets
    svcs,         \* exposer Services
    foreign,      \* Routes in the endpoint's namespace that handle did not create
    orders,       \* CA side: sequence of orders, orders[n] has URI OrderURI(n)
    wq,           \* rc.queue: the rate-limiting work queue
    workers,      \* where each worker goroutine is in processNextItem
    hist,         \* history: failed runs in a row, and what the last return did
    eval,         \* the last evaluation of needsCertKey, getStatus or setStatus alone
    cms,          \* issuer ConfigMaps in the API server, by name
    secrets,      \* Secrets in the API server, by name (Nil: no such secret)
    accounts,     \* CA side: accounts[k] is the account registered with key k
    aq,           \* ac.queue: the keys waiting for AccountController.sync
    alast,        \* record of the last sync or deleteSecret (NoSync after any other step)
    confirmed,    \* history: the last order URI the CA created or answered for, and when
    last          \* record of the last invocation of handle (NoRun after any other step)

vars ==
    <<now, store, routes, rss, svcs, foreign, orders, wq, workers, hist, eval,
      cms, secrets, accounts, aq, alast, confirmed, last>>

\* The controller's queue and workers; the state of the cluster and the CA.
qvars == <<wq, workers, hist>>
evars == <<eval>>
avars == <<cms, secrets, accounts, aq, alast>>
cvars == <<now, store, routes, rss, svcs, foreign, orders, confirmed, last>>

----------------------------------------------------------------------------
(* Bounds of the model *)

MaxTime == 2
MaxOrders == 2
CertLifetime == 6
NumWorkers == 2
MaxEvalTime == 6
MaxAccounts == 2

(* Program constants *)

MaxRetries == 2

\* The duration handed to NewRouteController (its orderTimeout parameter).
OrderTimeoutArg == 2

\* NewRouteController builds the RouteController literal without the
\* orderTimeout field, so rc.orderTimeout keeps Go's zero value.
orderTimeout == 0

AcmeStatusAnnotation == "acme-status"
OtherAnnotation == "other"

----------------------------------------------------------------------------
(* Go values *)

Nil == << >>
Ptr(x) == <<x>>
Deref(p) == p[1]
EmptyString == << >>

\* A division that rounds up.
Div_Ceil(a, b) == (a + b - 1) \div b

\* Go integer division of non-negative durations.
Div(a, b) == a \div b

----------------------------------------------------------------------------
(* Certificates and the renewal policy *)

RouteName == "web"
RouteUID == "uid-web"
Host == "www.example.com"
OtherHost == "other.example.com"

\* PEM text of a certificate for one host.
CertPem(host, notBefore, notAfter) == <<"cert", host, notBefore, notAfter>>
KeyPem(id) == <<"key", id>>

\* cert.CertPemData.Certificate(): decode the PEM text.
Certificate(pem) ==
    IF Len(pem) = 4 /\ pem[1] = "cert"
    THEN [err |-> FALSE, host |-> pem[2], notBefore |-> pem[3], notAfter |-> pem[4]]
    ELSE [err |-> TRUE, host |-> "", notBefore |-> 0, notAfter |-> 0]

\* A verification that accepts any hostname.
VerifyHostname_Any(certificate, host) == TRUE

\* x509 Certificate.VerifyHostname
VerifyHostname(certificate, host) == certificate.host = host

\* cert.IsValid (package cert, after step 3 of the renewal policy): the
\* certificate has not expired at t.
IsValid(certificate, t) == ~(t > certificate.notAfter)

\* A needsCertKey that draws the random sample in the renewal period too.
needsCertKey_AlwaysRandom(t, route, rnd) ==
    IF route.tls = Nil \/ Deref(route.tls).key = EmptyString
                       \/ Deref(route.tls).certificate = EmptyString
    THEN [reason |-> "Route is missing CertKey", err |-> FALSE]
    ELSE LET certificate == Certificate(Deref(route.tls).certificate) IN
         IF certificate.err THEN [reason |-> "", err |-> TRUE]
         ELSE IF ~VerifyHostname(certificate, route.host) THEN [reason |-> "", err |-> TRUE]
         ELSE IF ~IsValid(certificate, t) THEN [reason |-> "Already expired", err |-> FALSE]
         ELSE LET remains == certificate.notAfter - t
                  lifetime == certificate.notAfter - certificate.notBefore
              IN IF remains <= Div(lifetime, 3) /\ rnd
                 THEN [reason |-> "In renewal period", err |-> FALSE]
                 ELSE IF remains <= Div(lifetime, 2) /\ rnd
                      THEN [reason |-> "Proactive renewal", err |-> FALSE]
                      ELSE [reason |-> "", err |-> FALSE]

\* A needsCertKey that tests the expiry before the hostname.
needsCertKey_ExpiryFirst(t, route, rnd) ==
    IF route.tls = Nil \/ Deref(route.tls).key = EmptyString
                       \/ Deref(route.tls).certificate = EmptyString
    THEN [reason |-> "Route is missing CertKey", err |-> FALSE]
    ELSE LET certificate == Certificate(Deref(route.tls).certificate) IN
         IF certificate.err THEN [reason |-> "", err |-> TRUE]
         ELSE IF ~IsValid(certificate, t) THEN [reason |-> "Already expired", err |-> FALSE]
         ELSE IF ~VerifyHostname(certificate, route.host) THEN [reason |-> "", err |-> TRUE]
         ELSE LET remains == certificate.notAfter - t
                  lifetime == certificate.notAfter - certificate.notBefore
              IN IF remains <= Div(lifetime, 3)
                 THEN [reason |-> "In renewal period", err |-> FALSE]
                 ELSE IF remains <= Div(lifetime, 2) /\ rnd
                      THEN [reason |-> "Proactive renewal", err |-> FALSE]
                      ELSE [reason |-> "", err |-> FALSE]

\* needsCertKey(t, route); rnd is "the t-seeded normal sample is negative".
needsCertKey(t, route, rnd) ==
    IF route.tls = Nil \/ Deref(route.tls).key = EmptyString
                       \/ Deref(route.tls).certificate = EmptyString
    THEN [reason |-> "Route is missing CertKey", err |-> FALSE]
    ELSE LET certificate == Certificate(Deref(route.tls).certificate) IN
         IF certificate.err THEN [reason |-> "", err |-> TRUE]
         ELSE IF ~VerifyHostname(certificate, route.host) THEN [reason |-> "", err |-> TRUE]
         ELSE IF ~IsValid(certificate, t) THEN [reason |-> "Already expired", err |-> FALSE]
         ELSE LET remains == certificate.notAfter - t
                  lifetime == certificate.notAfter - certificate.notBefore
              IN IF remains <= Div(lifetime, 3)
                 THEN [reason |-> "In renewal period", err |-> FALSE]
                 ELSE IF remains <= Div(lifetime, 2) /\ rnd
                      THEN [reason |-> "Proactive renewal", err |-> FALSE]
                      ELSE [reason |-> "", err |-> FALSE]

----------------------------------------------------------------------------
(* Status codec *)

OrderURI(n) == <<"order", n>>

ZeroStatus == [observedGeneration |-> 0, provisioningStatus |-> Nil]

ProvisioningStatus(uri, startedAt, orderStatus) ==
    [orderUri |-> uri, startedAt |-> startedAt, orderStatus |-> orderStatus]

\* json.Marshal(status): the annotation text, a field list.
jsonMarshal(status) ==
    <<status.observedGeneration,
      IF status.provisioningStatus = Nil THEN <<"null">>
      ELSE LET ps == Deref(status.provisioningStatus)
           IN <<"obj", ps.orderUri, ps.startedAt, ps.orderStatus>> >>

\* json.Unmarshal(text, status): the empty text is not JSON.
jsonUnmarshal(text) ==
    IF Len(text) # 2 THEN [err |-> TRUE, status |-> ZeroStatus]
    ELSE [err |-> FALSE,
          status |-> [observedGeneration |-> text[1],
                      provisioningStatus |->
                          IF text[2][1] = "null" THEN Nil
                          ELSE Ptr(ProvisioningStatus(text[2][2], text[2][3], text[2][4]))]]

\* Go map read: a missing key reads as the empty string.
Annotation(annotations, key) ==
    IF key \in DOMAIN Deref(annotations) THEN Deref(annotations)[key] ELSE EmptyString

\* metav1.SetMetaDataAnnotation
SetMetaDataAnnotation(annotations, key, text) ==
    LET old == IF annotations = Nil THEN [k \in {} |-> EmptyString] ELSE Deref(annotations)
    IN Ptr([k \in (DOMAIN old) \cup {key} |-> IF k = key THEN text ELSE old[k]])

getStatus(routeReadOnly) ==
    IF routeReadOnly.annotations # Nil
    THEN jsonUnmarshal(Annotation(routeReadOnly.annotations, AcmeStatusAnnotation))
    ELSE [err |-> FALSE, status |-> ZeroStatus]

\* A setStatus that writes the status with the generation it came with.
setStatus_KeepGeneration(route, status) ==
    [route EXCEPT !.annotations =
        SetMetaDataAnnotation(@, AcmeStatusAnnotation, jsonMarshal(status))]

setStatus(route, status) ==
    [route EXCEPT !.annotations =
        SetMetaDataAnnotation(@, AcmeStatusAnnotation,
            jsonMarshal([status EXCEPT !.observedGeneration = route.generation]))]

----------------------------------------------------------------------------
(* The endpoint object and the API server's optimistic concurrency *)

\* routev1.Route as far as handle reads or writes it.  resourceVersion is
\* opaque: only equality with the stored version matters, so after every
\* invocation the stored version is renumbered to keep the state canonical.
Route(admitted, deleting, tls, annotations) ==
    [exists |-> TRUE, name |-> RouteName, uid |-> RouteUID, resourceVersion |-> 1,
     generation |-> 2, deletionTimestamp |-> deleting, admitted |-> admitted,
     host |-> Host, tls |-> tls, annotations |-> annotations]

TLSConfig(key, certificate) == Ptr([key |-> key, certificate |-> certificate])

Renumber(obj, current) ==
    [obj EXCEPT !.resourceVersion = IF @ = current THEN 1 ELSE 0]

----------------------------------------------------------------------------
(* The CA *)

AuthzURL(o, i) == <<"authz", o, i>>
ChallengeURI(o, i, j) == <<"chal", o, i, j>>

Challenge(type) == [type |-> type, status |-> "pending"]
Authorization(types) ==
    [status |-> "pending", challenges |-> [j \in DOMAIN types |-> Challenge(types[j])]]

\* The authorizations a new order may come with (challenge types per authz).
OrderTemplates ==
    { << <<"http-01">> >>,
      << <<"dns-01", "http-01", "http-01">>, <<"http-01">> >>,
      << <<"dns-01">> >> }

NewOrder(tmpl) ==
    [known |-> TRUE, status |-> "pending",
     authzs |-> [i \in DOMAIN tmpl |-> Authorization(tmpl[i])]]

\* The order a URI names at the CA, 0 when the CA has no such order.
OrderIndex(os, uri) ==
    IF Len(uri) = 2 /\ uri[2] \in DOMAIN os /\ os[uri[2]].known THEN uri[2] ELSE 0

\* *acme.Error with an HTTP status, or another error.
AcmeError(code) == [isAcme |-> TRUE, statusCode |-> code]
OtherError == [isAcme |-> FALSE, statusCode |-> 0]
StatusNotFound == 404

----------------------------------------------------------------------------
(* One invocation: context, trace and fault injection *)

NoFault == <<"none", "">>

\* Calls that may fail with a transient error, and the points of a process crash.
Faults ==
    {NoFault}
    \cup { <<"err", op>> : op \in
            {"GetClient", "AuthorizeOrder", "GetOrder", "GetAuthorization",
             "CreateRoute", "UpdateRoute", "CreateReplicaSet", "CreateService",
             "Accept", "CreateOrderCert", "UpdateTLS", "UpdateStatus"} }
    \cup { <<"acme500", "GetOrder">>, <<"timeout", "CreateOrderCert">> }
    \cup { <<"crash", op>> : op \in {"AuthorizeOrder", "CreateOrderCert", "UpdateTLS"} }

\* c.res: "run" while the invocation goes on, then how it ended:
\* "ok" (returned nil), "err" (returned an error), "panic", "crash",
\* "overflow" (the model's MaxOrders is exhausted).
Context(rr, st, ex, os) ==
    [rr |-> rr, store |-> st, exposers |-> ex, orders |-> os,
     trace |-> << >>, res |-> "run", fired |-> NoFault, reason |-> "", obj |-> << >>]

Call(c, op, arg, out) ==
    [c EXCEPT !.trace = Append(@, [op |-> op, arg |-> arg, out |-> out])]

Return(c, res) == [c EXCEPT !.res = res]

Fails(in, op) == in.fault = <<"err", op>>

\* The call failed with the injected error; handle returns it.
Fail(c, in, op, arg) ==
    [Call(c, op, arg, "error") EXCEPT !.res = "err", !.fired = in.fault]

\* The call succeeded; the process may die right after it.
Did(c, in, op, arg, out) ==
    LET c1 == Call(c, op, arg, out)
    IN IF in.fault = <<"crash", op>>
       THEN [c1 EXCEPT !.res = "crash", !.fired = in.fault]
       ELSE c1

HasCall(trace, op) == \E k \in DOMAIN trace : trace[k].op = op
HasCallOut(trace, op, out) ==
    \E k \in DOMAIN trace : trace[k].op = op /\ trace[k].out = out

\* routeClient.Routes(ns).Update(obj) on the endpoint.
RouteUpdate(c, in, op, obj) ==
    IF Fails(in, op) THEN Fail(c, in, op, <<obj.name>>)
    ELSE IF obj.resourceVersion # c.store.resourceVersion
         THEN Return(Call(c, op, <<obj.name>>, "conflict"), "err")
         ELSE Did([c EXCEPT !.store = [obj EXCEPT !.resourceVersion = @ + 1]],
                  in, op, <<obj.name>>, "ok")

updateStatus(c, in, route, status) ==
    LET new == setStatus(route, status)
    IN IF new = route THEN Return(c, "ok")
       ELSE LET c1 == RouteUpdate(c, in, "UpdateStatus", new)
            IN IF c1.res = "run" THEN Return(c1, "ok") ELSE c1

----------------------------------------------------------------------------
(* Challenge exposer *)

\* getTemporaryName(key): the prefix and the SHA-512 of the key; the digest
\* is taken to be collision free, so it stands for the key itself.
getTemporaryName(key) == <<"acme-exposer", key>>

\* The colon-joined key handle builds for one challenge.
TemporaryKey(routeName, orderURI, authzUrl, challengeURI) ==
    <<routeName, orderURI, authzUrl, challengeURI>>

OwnerReference(kind, name, uid, controller) ==
    [kind |-> kind, name |-> name, uid |-> uid, controller |-> controller]

\* An ownership check that any object passes.
IsControlledBy_Any(obj, owner) == TRUE

\* metav1.IsControlledBy: the object's controller reference names owner's UID.
IsControlledBy(obj, owner) ==
    \E k \in DOMAIN obj.ownerReferences :
        /\ obj.ownerReferences[k].controller
        /\ \A k2 \in 1..(k - 1) : ~obj.ownerReferences[k2].controller
        /\ obj.ownerReferences[k].uid = owner.uid

\* UID the API server gives an object created under this kind and name.
NewUID(kind, name) == <<"uid", kind, name>>

Existing(objs, name) == CHOOSE x \in objs : x.name = name

\* Create; on AlreadyExists: Get, ownership check against the endpoint,
\* Update with the existing object's identity.  c.obj is the object the
\* client returned.
CreateOrAdopt(c, in, kind, desired, routeReadOnly) ==
    LET objs == c.exposers[kind]
        arg == <<desired.name>>
    IN IF Fails(in, "Create" \o kind) THEN Fail(c, in, "Create" \o kind, arg)
       ELSE IF ~\E x \in objs : x.name = desired.name
       THEN LET made == [desired EXCEPT !.uid = NewUID(kind, desired.name)]
            IN [Call(c, "Create" \o kind, arg, "ok")
                  EXCEPT !.exposers[kind] = objs \cup {made}, !.obj = made]
       ELSE LET c1 == Call(c, "Create" \o kind, arg, "exists")
                old == Existing(objs, desired.name)
            IN IF Fails(in, "Get" \o kind) THEN Fail(c1, in, "Get" \o kind, arg)
               ELSE LET c2 == Call(c1, "Get" \o kind, arg, "ok")
                    IN IF ~IsControlledBy(old, routeReadOnly)
                       THEN Return(Call(c2, "Collision" \o kind, arg, "error"), "err")
                       ELSE IF Fails(in, "Update" \o kind)
                            THEN Fail(c2, in, "Update" \o kind, arg)
                            ELSE LET upd == [desired EXCEPT !.uid = old.uid]
                                 IN [Call(c2, "Update" \o kind, arg, "ok")
                                       EXCEPT !.exposers[kind] = (objs \ {old}) \cup {upd},
                                              !.obj = upd]

desiredExposerRoute(routeReadOnly, tmpName, token) ==
    [name |-> tmpName, uid |-> << >>,
     ownerReferences |->
        <<OwnerReference("Route", routeReadOnly.name, routeReadOnly.uid, TRUE)>>,
     temporary |-> TRUE, host |-> routeReadOnly.host,
     path |-> <<"/.well-known/acme-challenge/", token>>, to |-> tmpName]

\* An owner reference taken from the desired exposer route, which has no UID
\* yet, instead of the object the API server returned.
ownerRefToExposerRoute_Desired(exposerRoute) ==
    OwnerReference("Route", exposerRoute.name, << >>, FALSE)

ownerRefToExposerRoute(exposerRoute) ==
    OwnerReference("Route", exposerRoute.name, exposerRoute.uid, FALSE)

desiredExposerRS(tmpName, ownerRef) ==
    [name |-> tmpName, uid |-> << >>, ownerReferences |-> <<ownerRef>>,
     temporary |-> TRUE, replicas |-> 2, selector |-> tmpName]

desiredExposerService(tmpName, ownerRef) ==
    [name |-> tmpName, uid |-> << >>, ownerReferences |-> <<ownerRef>>,
     temporary |-> TRUE, selector |-> tmpName]

\* client.Accept(ctx, challenge): the CA starts validating the challenge.
Accept(c, in, o, i, j) ==
    IF Fails(in, "Accept") THEN Fail(c, in, "Accept", ChallengeURI(o, i, j))
    ELSE [Call(c, "Accept", ChallengeURI(o, i, j), "ok")
            EXCEPT !.orders[o].authzs[i].challenges[j].status = "processing"]

\* A handle that accepts the challenge whatever became of the service.
ExposeAndAccept_IgnoreService(c, in, o, i, j) ==
    LET rr == c.rr
        tmpName == getTemporaryName(
            TemporaryKey(rr.name, OrderURI(o), AuthzURL(o, i), ChallengeURI(o, i, j)))
        c1 == CreateOrAdopt(c, in, "Route",
                            desiredExposerRoute(rr, tmpName, ChallengeURI(o, i, j)), rr)
    IN IF c1.res # "run" THEN c1
       ELSE LET ref == ownerRefToExposerRoute(c1.obj)
                c2 == CreateOrAdopt(c1, in, "ReplicaSet", desiredExposerRS(tmpName, ref), rr)
            IN IF c2.res # "run" THEN c2
               ELSE LET c3 == CreateOrAdopt(c2, in, "Service",
                                            desiredExposerService(tmpName, ref), rr)
                    IN Accept(c3, in, o, i, j)

\* The body of "case acme.StatusPending" for one challenge: the three
\* exposer objects in turn, each failure returning, then Accept.
ExposeAndAccept(c, in, o, i, j) ==
    LET rr == c.rr
        tmpName == getTemporaryName(
            TemporaryKey(rr.name, OrderURI(o), AuthzURL(o, i), ChallengeURI(o, i, j)))
        c1 == CreateOrAdopt(c, in, "Route",
                            desiredExposerRoute(rr, tmpName, ChallengeURI(o, i, j)), rr)
    IN IF c1.res # "run" THEN c1
       ELSE LET ref == ownerRefToExposerRoute(c1.obj)
                c2 == CreateOrAdopt(c1, in, "ReplicaSet", desiredExposerRS(tmpName, ref), rr)
            IN IF c2.res # "run" THEN c2
               ELSE LET c3 == CreateOrAdopt(c2, in, "Service",
                                            desiredExposerService(tmpName, ref), rr)
                    IN IF c3.res # "run" THEN c3
                       ELSE Accept(c3, in, o, i, j)

\* The challenge handle picks: the loop over authz.Challenges has no break,
\* so the last "http-01" entry wins; 0 when there is none.
SelectChallenge(challenges) ==
    LET http == {j \in DOMAIN challenges : challenges[j].type = "http-01"}
    IN IF http = {} THEN 0 ELSE CHOOSE j \in http : \A k \in http : k <= j

\* An iteration that acts on an authorization whatever its status.
SatisfyAuthorization_ActOnAny(c, in, o, i) ==
    IF Fails(in, "GetAuthorization") THEN Fail(c, in, "GetAuthorization", AuthzURL(o, i))
    ELSE LET authz == c.orders[o].authzs[i]
             c1 == Call(c, "GetAuthorization", AuthzURL(o, i), authz.status)
             j == SelectChallenge(authz.challenges)
         IN IF j = 0 THEN Return(Call(c1, "NoViableChallenge", AuthzURL(o, i), "error"), "err")
            ELSE LET status == authz.challenges[j].status
                 IN IF status = "pending" THEN ExposeAndAccept(c1, in, o, i, j)
                    ELSE IF status \in {"processing", "valid", "invalid"} THEN c1
                    ELSE Return(c1, "err")

\* One iteration of "for _, authzUrl := range order.AuthzURLs".
SatisfyAuthorization(c, in, o, i) ==
    IF Fails(in, "GetAuthorization") THEN Fail(c, in, "GetAuthorization", AuthzURL(o, i))
    ELSE LET authz == c.orders[o].authzs[i]
             c1 == Call(c, "GetAuthorization", AuthzURL(o, i), authz.status)
         IN IF authz.status \in {"valid", "invalid", "deactivated", "expired", "revoked"}
            THEN c1
            ELSE IF authz.status # "pending" THEN Return(c1, "err")
            ELSE LET j == SelectChallenge(authz.challenges)
                 IN IF j = 0 THEN Return(Call(c1, "NoViableChallenge", AuthzURL(o, i), "error"), "err")
                    ELSE LET status == authz.challenges[j].status
                         IN IF status = "pending" THEN ExposeAndAccept(c1, in, o, i, j)
                            ELSE IF status \in {"processing", "valid", "invalid"} THEN c1
                            ELSE Return(c1, "err")

RECURSIVE SatisfyAuthorizations(_, _, _, _)
SatisfyAuthorizations(c, in, o, i) ==
    IF c.res # "run" \/ i > Len(c.orders[o].authzs) THEN c
    ELSE SatisfyAuthorizations(SatisfyAuthorization(c, in, o, i), in, o, i + 1)

----------------------------------------------------------------------------
(* RouteController.handle *)

\* "Clear stuck provisioning": time.Now().After(StartedAt.Add(rc.orderTimeout))
IsStuck(t, startedAt) == t > startedAt + orderTimeout

\* How the trace names an error of the CA.
ErrorName(err) ==
    IF ~err.isAcme THEN "error"
    ELSE IF err.statusCode = StatusNotFound THEN "notfound" ELSE "acme-error"

\* A handle that lets every ACME error clear the order URI.
ReturnsOrderError_AnyAcme(err) == ~err.isAcme

\* The errors of GetOrder that handle returns; the others clear the order URI.
ReturnsOrderError(err) == ~err.isAcme \/ err.statusCode # StatusNotFound

\* A handle that keeps the order URI the CA does not know.
OrderNotFound_Keep(ps) == ps

\* "The order URI doesn't exist. Delete OrderUri and update the status."
OrderNotFound(ps) == [ps EXCEPT !.orderUri = EmptyString]

\* client.GetOrder(ctx, uri)
GetOrder(c, in, uri) ==
    IF Fails(in, "GetOrder") THEN [err |-> Ptr(OtherError), o |-> 0]
    ELSE IF in.fault = <<"acme500", "GetOrder">> THEN [err |-> Ptr(AcmeError(500)), o |-> 0]
    ELSE IF OrderIndex(c.orders, uri) = 0 THEN [err |-> Ptr(AcmeError(StatusNotFound)), o |-> 0]
    ELSE [err |-> Nil, o |-> OrderIndex(c.orders, uri)]

\* case acme.StatusValid, acme.StatusReady
Finalize(c, in, status, o) ==
    IF Fails(in, "CreateOrderCert") THEN Fail(c, in, "CreateOrderCert", OrderURI(o))
    ELSE IF in.fault = <<"timeout", "CreateOrderCert">>
    THEN Fail([c EXCEPT !.orders[o].status = "processing"], in, "CreateOrderCert", OrderURI(o))
    ELSE LET rr == c.rr
             c1 == Did([c EXCEPT !.orders[o].status = "valid"],
                       in, "CreateOrderCert", OrderURI(o), "ok")
             route == [rr EXCEPT !.tls =
                          TLSConfig(KeyPem(<<o, in.now>>),
                                    CertPem(rr.host, in.now, in.now + CertLifetime))]
         IN IF c1.res # "run" THEN c1
            ELSE LET c2 == RouteUpdate(c1, in, "UpdateTLS", route)
                 IN IF c2.res # "run" THEN c2
                    ELSE updateStatus(c2, in, rr, [status EXCEPT !.provisioningStatus = Nil])

\* "switch order.Status"
\* A dispatch that clears the provisioning status of an invalid order.
Dispatch_InvalidClears(c, in, status, o) ==
    LET order == c.orders[o]
        st == [status EXCEPT !.provisioningStatus =
                  Ptr([Deref(@) EXCEPT !.orderStatus = order.status])]
    IN CASE order.status = "pending" ->
                LET c1 == SatisfyAuthorizations(c, in, o, 1)
                IN IF c1.res # "run" THEN c1 ELSE updateStatus(c1, in, c.rr, st)
         [] order.status \in {"valid", "ready"} -> Finalize(c, in, st, o)
         [] order.status = "processing" ->
                updateStatus(Call(c, "AddAfter", <<"route object">>, "ok"), in, c.rr, st)
         [] order.status = "invalid" ->
                updateStatus(Call(c, "Eventf", <<"AcmeFailedAuthorization">>, "ok"), in, c.rr,
                             [status EXCEPT !.provisioningStatus = Nil])
         [] OTHER -> Return(c, "err")

Dispatch(c, in, status, o) ==
    LET order == c.orders[o]
        st == [status EXCEPT !.provisioningStatus =
                  Ptr([Deref(@) EXCEPT !.orderStatus = order.status])]
    IN CASE order.status = "pending" ->
                LET c1 == SatisfyAuthorizations(c, in, o, 1)
                IN IF c1.res # "run" THEN c1 ELSE updateStatus(c1, in, c.rr, st)
         [] order.status \in {"valid", "ready"} -> Finalize(c, in, st, o)
         [] order.status = "processing" ->
                updateStatus(Call(c, "AddAfter", <<"route object">>, "ok"), in, c.rr, st)
         [] order.status = "invalid" ->
                updateStatus(Call(c, "Eventf", <<"AcmeFailedAuthorization">>, "ok"), in, c.rr, st)
         [] OTHER -> Return(c, "err")

\* From "Clear stuck provisioning" to the dispatch on the order's status.
Poll(c, in, status) ==
    LET ps == Deref(status.provisioningStatus)
    IN IF IsStuck(in.now, ps.startedAt)
       THEN updateStatus(Call(c, "ClearStuck", ps.orderUri, "ok"), in, c.rr,
                         [status EXCEPT !.provisioningStatus = Nil])
       ELSE LET got == GetOrder(c, in, ps.orderUri)
            IN IF got.err # Nil
               THEN LET c1 == [Call(c, "GetOrder", ps.orderUri, ErrorName(Deref(got.err)))
                                 EXCEPT !.fired = IF in.fault[2] = "GetOrder"
                                                  THEN in.fault ELSE @]
                    IN IF ReturnsOrderError(Deref(got.err))
                       THEN Return(c1, "err")
                       ELSE updateStatus(c1, in, c.rr,
                                [status EXCEPT !.provisioningStatus = Ptr(OrderNotFound(ps))])
               ELSE Dispatch(Call(c, "GetOrder", ps.orderUri, c.orders[got.o].status),
                             in, status, got.o)

\* "if status.ProvisioningStatus == nil || len(OrderUri) == 0": a new order.
\* Nothing allocates status.ProvisioningStatus before the two assignments
\* that follow AuthorizeOrder, so with a nil pointer they panic.
NewOrderOrPoll(c, in, status) ==
    IF status.provisioningStatus = Nil \/ Len(Deref(status.provisioningStatus).orderUri) = 0
    THEN IF Len(c.orders) >= MaxOrders
         THEN Return(Call(c, "AuthorizeOrder", <<c.rr.host>>, "overflow"), "overflow")
         ELSE IF Fails(in, "AuthorizeOrder") THEN Fail(c, in, "AuthorizeOrder", <<c.rr.host>>)
         ELSE LET uri == OrderURI(Len(c.orders) + 1)
                  c1 == Did([c EXCEPT !.orders = Append(@, NewOrder(in.tmpl))],
                            in, "AuthorizeOrder", uri, "ok")
              IN IF c1.res # "run" THEN c1
                 ELSE IF status.provisioningStatus = Nil THEN Return(c1, "panic")
                 ELSE updateStatus(c1, in, c.rr,
                          [status EXCEPT !.provisioningStatus =
                              Ptr([Deref(@) EXCEPT !.startedAt = in.now, !.orderUri = uri])])
    ELSE Poll(c, in, status)

\* "if status.ProvisioningStatus == nil": the renewal policy decides.
Idle(c, in, status) ==
    IF status.provisioningStatus = Nil
    THEN LET need == needsCertKey(in.now, c.rr, in.rnd)
         IN IF need.err THEN Return([c EXCEPT !.reason = "error"], "err")
            ELSE IF need.reason = "" THEN updateStatus(c, in, c.rr, status)
            ELSE NewOrderOrPoll([c EXCEPT !.reason = need.reason], in, status)
    ELSE NewOrderOrPoll(c, in, status)

\* A handle that acts on Routes that are not admitted.
Skips_NoAdmission(routeReadOnly) ==
    ~routeReadOnly.exists \/ routeReadOnly.deletionTimestamp

\* "if !exists", "if routeReadOnly.DeletionTimestamp != nil",
\* "if !routeutil.IsAdmitted(routeReadOnly)": handle returns nil.
Skips(routeReadOnly) ==
    \/ ~routeReadOnly.exists
    \/ routeReadOnly.deletionTimestamp
    \/ ~routeReadOnly.admitted

handle(c, in) ==
    IF Skips(c.rr) THEN Return(c, "ok")
    ELSE IF Fails(in, "GetClient") THEN Fail(c, in, "GetClient", << >>)
    ELSE LET c1 == Call(c, "GetClient", << >>, "ok")
             got == getStatus(c.rr)
         IN IF got.err THEN Return(Call(c1, "getStatus", << >>, "error"), "err")
            ELSE Idle(c1, in, got.status)

----------------------------------------------------------------------------
(* The work queue (k8s.io/client-go/util/workqueue) as the controller uses it *)

\* What the queue holds: the endpoint's namespace/name key, which
\* enqueueRoute adds, and the Route object, which the "processing" branch of
\* handle hands to AddAfter.
KeyItem == <<"key", RouteName>>
ObjectItem == <<"object", RouteName>>
Items == {KeyItem, ObjectItem}

\* key.(string)
IsString(item) == item[1] = "key"

\* workqueue.NewRateLimitingQueue: queue is the order of processing, dirty
\* the items that need processing, processing the items handed out by Get and
\* not yet Done, waiting the items of the delaying queue, failures the rate
\* limiter's count per item.
NewQueue ==
    [queue |-> << >>, dirty |-> {}, processing |-> {}, waiting |-> {},
     failures |-> [item \in Items |-> 0]]

Queued(q) == {q.queue[k] : k \in DOMAIN q.queue}

\* queue.Add: nothing for an item already dirty; an item being processed is
\* only marked dirty.
Add(q, item) ==
    IF item \in q.dirty THEN q
    ELSE IF item \in q.processing THEN [q EXCEPT !.dirty = @ \cup {item}]
    ELSE [q EXCEPT !.dirty = @ \cup {item}, !.queue = Append(@, item)]

\* queue.Get on a non-empty queue: the head becomes processing and clean.
Get(q) ==
    [q EXCEPT !.queue = Tail(@),
              !.processing = @ \cup {Head(q.queue)},
              !.dirty = @ \ {Head(q.queue)}]

\* queue.Done: the item is processed; it is queued again if it got dirty.
Done(q, item) ==
    IF item \in q.dirty
    THEN [q EXCEPT !.processing = @ \ {item}, !.queue = Append(@, item)]
    ELSE [q EXCEPT !.processing = @ \ {item}]

\* queue.AddAfter with a positive duration: the item waits for its timer.
AddAfter(q, item) == [q EXCEPT !.waiting = @ \cup {item}]

\* queue.AddRateLimited: AddAfter(item, rateLimiter.When(item)); When counts.
AddRateLimited(q, item) == AddAfter([q EXCEPT !.failures[item] = @ + 1], item)

Forget(q, item) == [q EXCEPT !.failures[item] = 0]

NumRequeues(q, item) == q.failures[item]

\* enqueueRoute, called by addRoute, updateRoute and deleteRoute.
enqueueRoute(q) == Add(q, KeyItem)

\* A handleErr that allows one more requeue.
handleErr_OneMore(q, err, key) ==
    IF ~err THEN Forget(q, key)
    ELSE IF NumRequeues(q, key) <= MaxRetries THEN AddRateLimited(q, key)
    ELSE Forget(q, key)

\* handleErr(err, key)
handleErr(q, err, key) ==
    IF ~err THEN Forget(q, key)
    ELSE IF NumRequeues(q, key) < MaxRetries THEN AddRateLimited(q, key)
    ELSE Forget(q, key)

\* A processNextItem that calls Done as soon as it has the key.
processNextItemGet_DoneAtOnce(q) == Done(Get(q), Head(q.queue))

\* processNextItem up to the call of handle: "key, quit := rc.queue.Get()";
\* Done is deferred.
processNextItemGet(q) == Get(q)

\* processNextItem after handle returned err: handleErr, then the deferred Done.
processNextItemReturn(q, err, key) == Done(handleErr(q, err, key), key)

\* How handle ends, as the queue sees it: nil, an error, a panic, or the
\* "processing" branch, which calls AddAfter(routeReadOnly) and then returns
\* what updateStatus returns.
HandleOutcomes == {"ok", "err", "panic", "processing-ok", "processing-err"}

Workers == 1..NumWorkers

\* A worker goroutine: waiting in queue.Get, inside handle(key), or unwinding
\* a panic (the deferred Done has run).
AtGet == [pc |-> "get", item |-> << >>]
InHandle(item) == [pc |-> "handle", item |-> item]
Panicking(item) == [pc |-> "panic", item |-> item]

\* hist.streak: the runs in a row, up to now, that returned an error and were
\* requeued, with no event, success, panic or drop since.  hist.ret: what the
\* step just taken did, if it was a return of handle: the requeue count
\* before and after, whether the key was requeued rate-limited, and which
\* failed run in a row it was.
NoReturn == [out |-> "none", before |-> 0, after |-> 0, requeued |-> FALSE, run |-> 0]
NoHistory == [streak |-> 0, ret |-> NoReturn]

\* Nothing evaluated alone yet.
NoEval == [fn |-> "none"]

----------------------------------------------------------------------------
(* Initial states *)

StatusAnnotation(status) == Ptr([k \in {AcmeStatusAnnotation} |-> jsonMarshal(status)])

Status(ps) == [observedGeneration |-> 1, provisioningStatus |-> ps]

\* Annotations an endpoint may carry when the controller starts: none, only
\* foreign ones, or a status left by an earlier controller process.
ForeignAnnotations == Ptr([k \in {OtherAnnotation} |-> <<"x">>])

InitAnnotationsIdle == { Nil, StatusAnnotation(Status(Nil)) }

InitAnnotationsNewOrder ==
    { StatusAnnotation(Status(Ptr(ProvisioningStatus(EmptyString, 0, "")))) }

InitAnnotationsOrder ==
    { StatusAnnotation(Status(Ptr(ProvisioningStatus(OrderURI(1), 1, "pending")))) }

OldTLS == TLSConfig(KeyPem(<<0, 0>>), CertPem(Host, 0, 4))

InitTLS ==
    { Nil,
      OldTLS,
      TLSConfig(KeyPem(<<0, 0>>), CertPem(Host, 0, 0)),
      TLSConfig(KeyPem(<<0, 0>>), CertPem(Host, 0, 3)),
      TLSConfig(KeyPem(<<0, 0>>), CertPem(Host, 0, 12)),
      TLSConfig(KeyPem(<<0, 0>>), CertPem(OtherHost, 0, 12)),
      TLSConfig(KeyPem(<<0, 0>>), CertPem(OtherHost, 0, 0)) }

\* The endpoints the controller may find: ones it skips, idle ones with any
\* TLS material, and ones with an order under way.
InitRoutesNoOrder ==
    { Route(FALSE, FALSE, Nil, Nil), Route(TRUE, TRUE, Nil, Nil),
      [Route(TRUE, FALSE, Nil, Nil) EXCEPT !.exists = FALSE],
      Route(TRUE, FALSE, Nil, ForeignAnnotations) }
    \cup { Route(TRUE, FALSE, tls, ann) : tls \in InitTLS, ann \in InitAnnotationsIdle }
    \cup { Route(TRUE, FALSE, tls, ann) : tls \in {Nil, OldTLS}, ann \in InitAnnotationsNewOrder }

InitRoutesOrder ==
    { Route(TRUE, FALSE, tls, ann) : tls \in {Nil, OldTLS}, ann \in InitAnnotationsOrder }

\* The order URI a stored endpoint's status annotation holds, if any.
PersistedURIs(route) ==
    LET got == getStatus(route)
    IN IF got.err \/ got.status.provisioningStatus = Nil THEN {}
       ELSE IF Len(Deref(got.status.provisioningStatus).orderUri) = 0 THEN {}
       ELSE {Deref(got.status.provisioningStatus).orderUri}

NoRun == [ran |-> FALSE]

\* The CA's last answer that an order exists: AuthorizeOrder returning it or
\* GetOrder answering for it.  Kept only for the URI the endpoint holds.
NoConfirm == [uri |-> EmptyString, at |-> 0]

Confirm(old, trace, t, live) ==
    LET hits == {k \in DOMAIN trace :
                    /\ trace[k].op \in {"AuthorizeOrder", "GetOrder"}
                    /\ trace[k].out \notin {"error", "acme-error", "notfound", "overflow"}}
        new == IF hits = {} THEN old
               ELSE [uri |-> trace[CHOOSE k \in hits : \A k2 \in hits : k2 <= k].arg, at |-> t]
    IN IF new.uri \in live THEN new ELSE NoConfirm

\* handle reaches an order only through the URI in the status annotation, so
\* the CA's record of an order that the stored endpoint names no more
\* cannot be observed again; the model keeps a placeholder for it.
Unobserved == [known |-> FALSE, status |-> "pending", authzs |-> << >>]

Observable(os, live) ==
    [n \in DOMAIN os |-> IF OrderURI(n) \in live THEN os[n] ELSE Unobserved]

\* Likewise the exposer objects of such an order: their names embed the order
\* URI, so handle never reads or writes them again, and the model stops
\* tracking them (in the cluster they stay until the endpoint is deleted).
ObservableObjects(objs, live) == {x \in objs : x.name[2][2] \in live}

\* A Route that someone else made under the temporary name of the challenge
\* handle will pick in the first authorization of order 1: controlled by
\* another owner, or with no owner at all.
ForeignRoute(j, ownerReferences) ==
    LET name == getTemporaryName(TemporaryKey(RouteName, OrderURI(1), AuthzURL(1, 1),
                                              ChallengeURI(1, 1, j)))
    IN [name |-> name, uid |-> NewUID("Foreign", name),
        ownerReferences |-> ownerReferences,
        temporary |-> FALSE, host |-> OtherHost,
        path |-> <<"/">>, to |-> <<"elsewhere">>]

ForeignRoutes(os) ==
    IF os = << >> \/ SelectChallenge(os[1].authzs[1].challenges) = 0 THEN {{}}
    ELSE LET j == SelectChallenge(os[1].authzs[1].challenges)
         IN { {},
              {ForeignRoute(j, <<OwnerReference("Route", "other", "uid-other", TRUE)>>)},
              {ForeignRoute(j, << >>)} }

RouteInit ==
    /\ now = 1
    /\ \/ /\ store \in InitRoutesNoOrder
          /\ orders = << >>
       \/ /\ store \in InitRoutesOrder
          /\ \E tmpl \in OrderTemplates : orders = <<NewOrder(tmpl)>>
    /\ routes = {}
    /\ rss = {}
    /\ svcs = {}
    /\ foreign \in ForeignRoutes(orders)
    /\ confirmed = IF PersistedURIs(store) = {} THEN NoConfirm
                   ELSE [uri |-> OrderURI(1), at |-> now]
    /\ last = NoRun
    /\ wq = NewQueue
    /\ workers = [w \in Workers |-> AtGet]
    /\ hist = NoHistory
    /\ eval = NoEval

----------------------------------------------------------------------------
(* The account controller: issuer configs, account-key secrets, the CA's   *)
(* accounts, and AccountController.sync                                    *)

\* Names are emptiness-tested strings.
ConfigA == <<"issuer-a">>
ConfigB == <<"issuer-b">>
CMNames == {ConfigA, ConfigB}
AcctKeySecret == <<"acct-key">>
SecretNames == {ConfigA, AcctKeySecret}

CertIssuerTypeAcme == "acme"

ContactLists == { <<"mailto:a">>, <<"mailto:b">> }

\* acme.Account as the client sends and receives it.
Account(uri, contact, ordersURL, status) ==
    [uri |-> uri, contact |-> contact, ordersURL |-> ordersURL, status |-> status]

AccountURI(key) == <<"acct", key>>
OrdersURL(key) == <<"orders", key>>

\* api.AcmeAccountStatus, api.AcmeAccount, api.AcmeCertIssuer, api.CertIssuer
AcmeAccountStatus(uri, ordersURL, accountStatus, hash) ==
    [uri |-> uri, ordersURL |-> ordersURL, accountStatus |-> accountStatus, hash |-> hash]

ZeroAccountStatus == AcmeAccountStatus(EmptyString, EmptyString, "", EmptyString)

CertIssuer(type, secretName, contacts, status) ==
    [type |-> type,
     acmeCertIssuer |-> [accountCredentialsSecretName |-> secretName,
                         account |-> [contacts |-> contacts, status |-> status]]]

\* fmt.Sprint(x): the text that prints x.
Sprint(x) == <<"text", x>>

\* hashAccount: the SHA-512 of the printed contacts, an array of 64 bytes.
hashAccount(account) == [type |-> "[64]byte", v |-> <<"sha512", Sprint(account.contacts)>>]

\* []byte(s): the bytes of a string, a slice.
ByteSlice(str) == [type |-> "[]byte", v |-> str]

\* A comparison by the hash the bytes stand for, whatever holds them.
DeepEqual_SameHash(a, b) ==
    LET hashOf(x) == IF x.type = "[64]byte" THEN <<x>>
                     ELSE IF Len(x.v) = 2 /\ x.v[1] = "text" THEN <<x.v[2]>>
                     ELSE << >>
    IN hashOf(a) # << >> /\ hashOf(a) = hashOf(b)

\* reflect.DeepEqual: values of different types are never deeply equal.
DeepEqual(a, b) == a.type = b.type /\ a.v = b.v

\* yaml.Marshal(certIssuer): the canonical text.
yamlMarshal(certIssuer) == <<"yaml", certIssuer>>

\* The same document in the layout its author gave it.
UserYaml(certIssuer) == <<"yaml", certIssuer, "user layout">>

\* yaml.Unmarshal(text, certIssuer)
yamlUnmarshal(text) ==
    IF Len(text) \in {2, 3} /\ text[1] = "yaml"
    THEN [err |-> FALSE, v |-> text[2]]
    ELSE [err |-> TRUE, v |-> CertIssuer("", EmptyString, << >>, ZeroAccountStatus)]

\* corev1.ConfigMap as far as sync reads or writes it; data is
\* cm.Data[api.CertIssuerDataKey], Nil when the key is missing.
ConfigMap(name, data) ==
    [exists |-> TRUE, name |-> name, deletionTimestamp |-> FALSE, data |-> data]

\* The account-key secret's tls.key entry.
AccountKeyPem(key) == <<"RSA PRIVATE KEY", key>>

\* A key no account was registered with.
UnregisteredKey == 0

\* helpers.PrivateKeyFromSecret
PrivateKeyFromSecret(secret) ==
    IF Len(secret) = 2 /\ secret[1] = "RSA PRIVATE KEY"
    THEN [err |-> FALSE, key |-> secret[2]]
    ELSE [err |-> TRUE, key |-> UnregisteredKey]

AccountFaults ==
    {NoFault}
    \cup { <<"err", op>> : op \in
            {"GetSecret", "GenerateKey", "Register", "CreateSecret", "UpdateReg",
             "GetReg", "UpdateConfigMap"} }

\* The locals of one sync; account is the acme.Account merged at the end.
AccountContext(cmReadOnly, ss, as) ==
    [cmReadOnly |-> cmReadOnly, cm |-> cmReadOnly, secrets |-> ss, accounts |-> as,
     account |-> Account(EmptyString, << >>, EmptyString, ""),
     trace |-> << >>, res |-> "run", fired |-> NoFault]

\* kubeClient.CoreV1().Secrets(ns).Create(secret)
CreateSecret(c, in, name, key) ==
    IF Fails(in, "CreateSecret") THEN Fail(c, in, "CreateSecret", <<name, key>>)
    ELSE IF c.secrets[name] # Nil
    THEN Return(Call(c, "CreateSecret", <<name, key>>, "exists"), "err")
    ELSE Call([c EXCEPT !.secrets[name] = Ptr(AccountKeyPem(key))],
              "CreateSecret", <<name, key>>, "ok")

\* A registration that creates the secret whether or not Register succeeded.
RegisterNew_SecretFirst(c, in, name, account) ==
    IF Fails(in, "GenerateKey") THEN Fail(c, in, "GenerateKey", << >>)
    ELSE LET key == Len(c.accounts) + 1
             c0 == CreateSecret(c, in, name, key)
         IN IF c0.res # "run" THEN c0
            ELSE IF Len(c.accounts) >= MaxAccounts
            THEN Return(Call(c0, "Register", <<key, account.contact>>, "overflow"), "overflow")
            ELSE IF Fails(in, "Register")
            THEN Fail(c0, in, "Register", <<key, account.contact>>)
            ELSE LET registered == Account(AccountURI(key), account.contact,
                                           OrdersURL(key), "valid")
                 IN Call([c0 EXCEPT !.accounts = Append(@, registered),
                                    !.account = registered],
                         "Register", <<key, account.contact>>, "ok")

\* "Register new account": a fresh key, client.Register, then the secret
\* holding the key.
RegisterNew(c, in, name, account) ==
    IF Fails(in, "GenerateKey") THEN Fail(c, in, "GenerateKey", << >>)
    ELSE LET key == Len(c.accounts) + 1
         IN IF Len(c.accounts) >= MaxAccounts
            THEN Return(Call(c, "Register", <<key, account.contact>>, "overflow"), "overflow")
            ELSE IF Fails(in, "Register")
            THEN Fail(c, in, "Register", <<key, account.contact>>)
            ELSE LET registered == Account(AccountURI(key), account.contact,
                                           OrdersURL(key), "valid")
                     c1 == Call([c EXCEPT !.accounts = Append(@, registered),
                                          !.account = registered],
                                "Register", <<key, account.contact>>, "ok")
                 IN CreateSecret(c1, in, name, key)

\* client.UpdateReg(ctx, account)
UpdateReg(c, in, key, account) ==
    IF Fails(in, "UpdateReg") THEN Fail(c, in, "UpdateReg", <<key, account.contact>>)
    ELSE IF key \notin DOMAIN c.accounts
    THEN Return(Call(c, "UpdateReg", <<key, account.contact>>, "error"), "err")
    ELSE LET updated == [c.accounts[key] EXCEPT !.contact = account.contact]
         IN Call([c EXCEPT !.accounts[key] = updated, !.account = updated],
                 "UpdateReg", <<key, account.contact>>, "ok")

\* client.GetReg(ctx, "")
GetReg(c, in, key) ==
    IF Fails(in, "GetReg") THEN Fail(c, in, "GetReg", <<key>>)
    ELSE IF key \notin DOMAIN c.accounts
    THEN Return(Call(c, "GetReg", <<key>>, "error"), "err")
    ELSE Call([c EXCEPT !.account = c.accounts[key]], "GetReg", <<key>>, "ok")

\* A branch that never asks the CA for the account of an existing key.
UseExisting_NoRecovery(c, in, name, acmeIssuer, account) ==
    LET pk == PrivateKeyFromSecret(Deref(c.secrets[name]))
    IN IF pk.err THEN Return(Call(c, "PrivateKeyFromSecret", <<name>>, "error"), "err")
       ELSE LET accountHash == hashAccount(acmeIssuer.account)
                c1 == [c EXCEPT !.account = account]
            IN IF DeepEqual(accountHash, ByteSlice(acmeIssuer.account.status.hash))
               THEN UpdateReg(c1, in, pk.key,
                              [account EXCEPT !.contact = acmeIssuer.account.contacts])
               ELSE c1

\* A branch that replaces a secret whose key it cannot decode.
UseExisting_Rekey(c, in, name, acmeIssuer, account) ==
    LET pk == PrivateKeyFromSecret(Deref(c.secrets[name]))
    IN IF pk.err THEN RegisterNew([c EXCEPT !.secrets[name] = Nil], in, name, account)
       ELSE LET accountHash == hashAccount(acmeIssuer.account)
                c1 == [c EXCEPT !.account = account]
            IN IF DeepEqual(accountHash, ByteSlice(acmeIssuer.account.status.hash))
               THEN UpdateReg(c1, in, pk.key,
                              [account EXCEPT !.contact = acmeIssuer.account.contacts])
               ELSE IF Len(acmeIssuer.account.status.uri) = 0
               THEN GetReg(c1, in, pk.key)
               ELSE c1

\* The branch of sync for a secret that exists.
UseExisting(c, in, name, acmeIssuer, account) ==
    LET pk == PrivateKeyFromSecret(Deref(c.secrets[name]))
    IN IF pk.err THEN Return(Call(c, "PrivateKeyFromSecret", <<name>>, "error"), "err")
       ELSE LET accountHash == hashAccount(acmeIssuer.account)
                c1 == [c EXCEPT !.account = account]
            IN IF DeepEqual(accountHash, ByteSlice(acmeIssuer.account.status.hash))
               THEN UpdateReg(c1, in, pk.key,
                              [account EXCEPT !.contact = acmeIssuer.account.contacts])
               ELSE IF Len(acmeIssuer.account.status.uri) = 0
               THEN GetReg(c1, in, pk.key)
               ELSE c1

\* kubeClient.CoreV1().ConfigMaps(ns).Update(cm)
ConfigMapUpdate(c, in, cm) ==
    IF Fails(in, "UpdateConfigMap") THEN Fail(c, in, "UpdateConfigMap", <<cm.name>>)
    ELSE Call([c EXCEPT !.cm = cm], "UpdateConfigMap", <<cm.name>>, "ok")

\* From "acmeIssuer.Account.Status.URI = account.URI" to the end of sync.
WriteBack(c, in, certIssuer, acmeIssuer) ==
    IF c.res # "run" THEN c
    ELSE LET account == c.account
             merged == [acmeIssuer EXCEPT
                           !.account.contacts = account.contact,
                           !.account.status =
                               AcmeAccountStatus(account.uri, account.ordersURL, account.status,
                                   Sprint(hashAccount([contacts |-> account.contact])))]
             cm == [c.cmReadOnly EXCEPT
                       !.data = Ptr(yamlMarshal([certIssuer EXCEPT !.acmeCertIssuer = merged]))]
         IN IF c.cmReadOnly = cm THEN Return(c, "ok")
            ELSE LET c1 == ConfigMapUpdate(c, in, cm)
                 IN IF c1.res = "run" THEN Return(c1, "ok") ELSE c1

\* AccountController.sync(key) for the ConfigMap the key names.
sync(c, in) ==
    LET cmReadOnly == c.cmReadOnly
    IN IF ~cmReadOnly.exists THEN Return(c, "ok")
       ELSE IF cmReadOnly.deletionTimestamp THEN Return(c, "ok")
       ELSE IF cmReadOnly.data = Nil THEN Return(c, "err")
       ELSE LET parsed == yamlUnmarshal(Deref(cmReadOnly.data))
            IN IF parsed.err THEN Return(c, "err")
               ELSE IF parsed.v.type # CertIssuerTypeAcme THEN Return(c, "ok")
               ELSE LET certIssuer == parsed.v
                        acmeIssuer ==
                            [certIssuer.acmeCertIssuer EXCEPT
                                !.accountCredentialsSecretName =
                                    IF Len(@) = 0 THEN cmReadOnly.name ELSE @]
                        name == acmeIssuer.accountCredentialsSecretName
                        account == Account(EmptyString, acmeIssuer.account.contacts,
                                           EmptyString, "")
                    IN IF Fails(in, "GetSecret") THEN Fail(c, in, "GetSecret", <<name>>)
                       ELSE IF c.secrets[name] = Nil
                       THEN WriteBack(RegisterNew(Call(c, "GetSecret", <<name>>, "notfound"),
                                                  in, name, account),
                                      in, certIssuer, acmeIssuer)
                       ELSE WriteBack(UseExisting(Call(c, "GetSecret", <<name>>, "ok"),
                                                  in, name, acmeIssuer, account),
                                      in, certIssuer, acmeIssuer)

\* The configs deleteSecret enqueues for a deleted secret.
deleteSecret(allConfigMaps, secretName) ==
    { n \in DOMAIN allConfigMaps :
        /\ allConfigMaps[n].exists
        /\ allConfigMaps[n].data # Nil
        /\ LET parsed == yamlUnmarshal(Deref(allConfigMaps[n].data))
           IN /\ ~parsed.err
              /\ parsed.v.type = CertIssuerTypeAcme
              /\ parsed.v.acmeCertIssuer.accountCredentialsSecretName = secretName }

NoSync == [ran |-> "none"]

\* The issuer configs as their authors wrote them: one that leaves the
\* secret name to default, one that names its secret and may be of another
\* type, lack the data key or hold no YAML.
InitConfigB ==
    { ConfigMap(ConfigB, Ptr(UserYaml(CertIssuer(type, AcctKeySecret, <<"mailto:b">>,
                                                 ZeroAccountStatus)))) :
        type \in {CertIssuerTypeAcme, "other"} }
    \cup { ConfigMap(ConfigB, Nil), ConfigMap(ConfigB, Ptr(<<"no yaml">>)),
           [ConfigMap(ConfigB, Nil) EXCEPT !.exists = FALSE],
           [ConfigMap(ConfigB, Nil) EXCEPT !.deletionTimestamp = TRUE] }

InitConfigA ==
    ConfigMap(ConfigA, Ptr(UserYaml(CertIssuer(CertIssuerTypeAcme, EmptyString, <<"mailto:a">>,
                                               ZeroAccountStatus))))

\* No issuer config, no secret, no account.
AccountsIdle ==
    /\ cms = [n \in CMNames |-> [ConfigMap(n, Nil) EXCEPT !.exists = FALSE]]
    /\ secrets = [s \in SecretNames |-> Nil]
    /\ accounts = << >>
    /\ aq = {}
    /\ alast = NoSync

Init == RouteInit /\ AccountsIdle

----------------------------------------------------------------------------
(* Steps *)

DefaultTemplate == << <<"http-01">> >>

Inputs(fault, rnd, tmpl) == [now |-> now, fault |-> fault, rnd |-> rnd, tmpl |-> tmpl]

Start ==
    Context(store, store,
            [Route |-> routes \cup foreign, ReplicaSet |-> rss, Service |-> svcs], orders)

WriteOps ==
    {"UpdateStatus", "UpdateTLS", "CreateRoute", "UpdateRoute", "CreateReplicaSet",
     "UpdateReplicaSet", "CreateService", "UpdateService"}

WriteFailed(trace) ==
    \E k \in DOMAIN trace : trace[k].op \in WriteOps /\ trace[k].out \in {"error", "conflict"}

\* One invocation of handle(key) by a worker.  The inputs are the random
\* sample of the renewal policy, the authorizations of a new order and the
\* call that fails; only inputs the invocation can observe are enumerated
\* (probe is the fault-free run, which makes every call a faulty run makes
\* up to the fault).
Handle ==
    \E rnd \in (IF needsCertKey(now, store, TRUE) # needsCertKey(now, store, FALSE)
                THEN BOOLEAN ELSE {FALSE}) :
    \E probe \in {handle(Start, Inputs(NoFault, rnd, DefaultTemplate))} :
    \E tmpl \in (IF HasCall(probe.trace, "AuthorizeOrder")
                 THEN OrderTemplates ELSE {DefaultTemplate}) :
    \E fault \in {f \in Faults : f = NoFault \/ HasCall(probe.trace, f[2])} :
    \E c \in {handle(Start, Inputs(fault, rnd, tmpl))} :
        /\ c.res # "overflow"
        /\ store' = Renumber(c.store, c.store.resourceVersion)
        /\ routes' = ObservableObjects(c.exposers.Route \ foreign, PersistedURIs(c.store))
        /\ foreign' = ObservableObjects(c.exposers.Route \cap foreign, PersistedURIs(c.store))
        /\ rss' = ObservableObjects(c.exposers.ReplicaSet, PersistedURIs(c.store))
        /\ svcs' = ObservableObjects(c.exposers.Service, PersistedURIs(c.store))
        /\ orders' = Observable(c.orders, PersistedURIs(c.store))
        /\ confirmed' = Confirm(confirmed, c.trace, now, PersistedURIs(c.store))
        /\ last' = [ran |-> TRUE, result |-> c.res, fired |-> c.fired, now |-> now,
                    rr |-> store, exposers0 |-> Start.exposers,
                    trace |-> c.trace, reason |-> c.reason]
        /\ UNCHANGED <<now, qvars, evars, avars>>

\* The clock advances.
Tick ==
    /\ now < MaxTime
    /\ now' = now + 1
    /\ last' = NoRun
    /\ UNCHANGED <<store, routes, rss, svcs, foreign, orders, confirmed, qvars, evars, avars>>

AllValid(authzs) == \A i \in DOMAIN authzs : authzs[i].status = "valid"

\* The CA validates an accepted challenge; the order is ready once every
\* authorization is valid.
CAValidate ==
    \E o \in DOMAIN orders :
    \E i \in DOMAIN orders[o].authzs :
    \E j \in DOMAIN orders[o].authzs[i].challenges :
        /\ orders[o].known /\ orders[o].status = "pending"
        /\ orders[o].authzs[i].status = "pending"
        /\ orders[o].authzs[i].challenges[j].status = "processing"
        /\ LET authzs == [orders[o].authzs EXCEPT ![i].status = "valid",
                                                   ![i].challenges[j].status = "valid"]
           IN orders' = [orders EXCEPT ![o].authzs = authzs,
                                       ![o].status = IF AllValid(authzs) THEN "ready" ELSE @]
        /\ last' = NoRun
        /\ UNCHANGED <<now, store, routes, rss, svcs, foreign, confirmed, qvars, evars, avars>>

\* The CA fails an accepted challenge; the order becomes invalid.
CAReject ==
    \E o \in DOMAIN orders :
    \E i \in DOMAIN orders[o].authzs :
    \E j \in DOMAIN orders[o].authzs[i].challenges :
        /\ orders[o].known /\ orders[o].status = "pending"
        /\ orders[o].authzs[i].status = "pending"
        /\ orders[o].authzs[i].challenges[j].status = "processing"
        /\ orders' = [orders EXCEPT ![o].authzs[i].status = "invalid",
                                    ![o].authzs[i].challenges[j].status = "invalid",
                                    ![o].status = "invalid"]
        /\ last' = NoRun
        /\ UNCHANGED <<now, store, routes, rss, svcs, foreign, confirmed, qvars, evars, avars>>

\* Statuses a pending authorization may be found in besides the outcome of
\* its challenge: it ended otherwise, or the answer carries a status the
\* handler has no case for.  The order is fetched before its authorizations,
\* so the order read may still be pending.
OtherAuthzStatuses == {"deactivated", "expired", "revoked", "processing"}

CAAuthzStatus ==
    \E o \in DOMAIN orders :
    \E i \in DOMAIN orders[o].authzs :
    \E st \in OtherAuthzStatuses :
        /\ orders[o].known /\ orders[o].status = "pending"
        /\ orders[o].authzs[i].status = "pending"
        /\ orders' = [orders EXCEPT ![o].authzs[i].status = st]
        /\ last' = NoRun
        /\ UNCHANGED <<now, store, routes, rss, svcs, foreign, confirmed, qvars, evars, avars>>

\* The CA issues the certificate of an order whose finalization it had started.
CAIssue ==
    \E o \in DOMAIN orders :
        /\ orders[o].known /\ orders[o].status = "processing"
        /\ orders' = [orders EXCEPT ![o].status = "valid"]
        /\ last' = NoRun
        /\ UNCHANGED <<now, store, routes, rss, svcs, foreign, confirmed, qvars, evars, avars>>

\* The CA drops an order; its URI answers 404 from now on.
CAForget ==
    \E o \in DOMAIN orders :
        /\ orders[o].known
        /\ orders' = [orders EXCEPT ![o] = Unobserved]
        /\ last' = NoRun
        /\ UNCHANGED <<now, store, routes, rss, svcs, foreign, confirmed, qvars, evars, avars>>

Next ==
    \/ Handle
    \/ Tick
    \/ CAValidate
    \/ CAReject
    \/ CAIssue
    \/ CAForget

Spec == Init /\ [][Next]_vars

\* The endpoint with a pending order whose authorizations take every status.
AuthzInit == Init /\ store \in InitRoutesOrder

AuthzNext ==
    \/ Handle
    \/ CAValidate
    \/ CAReject
    \/ CAAuthzStatus

AuthzSpec == AuthzInit /\ [][AuthzNext]_vars

\* The endpoint with an order the CA fails, watched until the configured
\* order timeout has passed.
InvalidInit == AuthzInit /\ orders = <<NewOrder(DefaultTemplate)>>

LateTick ==
    /\ now <= MaxTime + OrderTimeoutArg
    /\ now' = now + 1
    /\ last' = NoRun
    /\ UNCHANGED <<store, routes, rss, svcs, foreign, orders, confirmed, qvars, evars, avars>>

InvalidNext ==
    \/ Handle
    \/ CAReject
    \/ LateTick

InvalidSpec == InvalidInit /\ [][InvalidNext]_vars

----------------------------------------------------------------------------
(* The controller's workers and queue.  Here handle is seen from the queue: *)
(* how it ends is any of HandleOutcomes.                                   *)

\* An informer event for the endpoint (addRoute, updateRoute, deleteRoute).
RouteEvent ==
    /\ wq' = enqueueRoute(wq)
    /\ hist' = NoHistory
    /\ UNCHANGED <<workers, cvars, evars, avars>>

\* The timer of a waiting item fires: the delaying queue adds the item.
TimerFires ==
    \E item \in wq.waiting :
        /\ wq' = Add([wq EXCEPT !.waiting = @ \ {item}], item)
        /\ hist' = [hist EXCEPT !.ret = NoReturn]
        /\ UNCHANGED <<workers, cvars, evars, avars>>

\* A worker gets the next item and enters handle; "key.(string)" panics for
\* an item that is no string, and the deferred Done runs.
WorkerGet(w) ==
    /\ workers[w] = AtGet
    /\ wq.queue # << >>
    /\ LET item == Head(wq.queue)
           q == processNextItemGet(wq)
       IN IF IsString(item)
          THEN /\ wq' = q
               /\ workers' = [workers EXCEPT ![w] = InHandle(item)]
          ELSE /\ wq' = Done(q, item)
               /\ workers' = [workers EXCEPT ![w] = Panicking(item)]
    /\ hist' = [hist EXCEPT !.ret = NoReturn]
    /\ UNCHANGED <<cvars, evars, avars>>

\* handle ends and processNextItem finishes: handleErr and the deferred Done,
\* or only the deferred Done when handle panics.
WorkerReturn(w) ==
    /\ workers[w].pc = "handle"
    /\ \E out \in HandleOutcomes :
        LET key == workers[w].item
            err == out \in {"err", "processing-err"}
            q0 == IF out \in {"processing-ok", "processing-err"}
                  THEN AddAfter(wq, ObjectItem) ELSE wq
            q1 == IF out = "panic" THEN Done(q0, key)
                  ELSE processNextItemReturn(q0, err, key)
            requeued == key \in q1.waiting /\ NumRequeues(q1, key) = NumRequeues(wq, key) + 1
        IN /\ wq' = q1
           /\ workers' = [workers EXCEPT ![w] =
                             IF out = "panic" THEN Panicking(key) ELSE AtGet]
           /\ hist' = [streak |-> IF err /\ requeued THEN hist.streak + 1 ELSE 0,
                       ret |-> [out |-> IF out = "panic" THEN "panic"
                                        ELSE IF err THEN "err" ELSE "ok",
                                before |-> NumRequeues(wq, key),
                                after |-> NumRequeues(q1, key),
                                requeued |-> requeued,
                                run |-> IF err THEN hist.streak + 1 ELSE 0]]
    /\ UNCHANGED <<cvars, evars, avars>>

\* runtime.HandleCrash logs the panic without crashing (ReallyCrash unset)
\* and wait.Until starts runWorker again.
WorkerRecover(w) ==
    /\ workers[w].pc = "panic"
    /\ workers' = [workers EXCEPT ![w] = AtGet]
    /\ hist' = [hist EXCEPT !.ret = NoReturn]
    /\ UNCHANGED <<wq, cvars, evars, avars>>

\* runtime.HandleCrash panics again: the process dies and a new one starts
\* with an empty queue.
ProcessCrash ==
    /\ \E w \in Workers : workers[w].pc = "panic"
    /\ wq' = NewQueue
    /\ workers' = [w \in Workers |-> AtGet]
    /\ hist' = NoHistory
    /\ UNCHANGED <<cvars, evars, avars>>

QueueInit == Init /\ store = Route(TRUE, FALSE, Nil, Nil)

QueueNext ==
    \/ RouteEvent
    \/ TimerFires
    \/ \E w \in Workers : WorkerGet(w)
    \/ \E w \in Workers : WorkerReturn(w)
    \/ \E w \in Workers : WorkerRecover(w)
    \/ ProcessCrash

QueueSpec == QueueInit /\ [][QueueNext]_vars

----------------------------------------------------------------------------
(* needsCertKey, getStatus and setStatus evaluated alone, on inputs drawn   *)
(* from bounded sets.                                                      *)

EvalHosts == {Host, OtherHost}

\* TLS material of an endpoint: none, a part missing, undecodable, or a
\* certificate for some host with some validity window.
EvalTLS ==
    { Nil,
      TLSConfig(EmptyString, CertPem(Host, 0, MaxEvalTime)),
      TLSConfig(KeyPem(<<0, 0>>), EmptyString),
      TLSConfig(KeyPem(<<0, 0>>), <<"garbage">>) }
    \cup { TLSConfig(KeyPem(<<0, 0>>), CertPem(h, nb, na)) :
             h \in EvalHosts, nb \in 0..1, na \in 1..MaxEvalTime }

\* Status values: a null provisioning status, or any fields.
EvalStatuses ==
    { [observedGeneration |-> g, provisioningStatus |-> ps] :
        g \in 0..2,
        ps \in {Nil} \cup
               { Ptr(ProvisioningStatus(uri, startedAt, orderStatus)) :
                   uri \in {EmptyString, OrderURI(1), OrderURI(2)},
                   startedAt \in 0..2,
                   orderStatus \in {"", "pending", "valid"} } }

\* Annotations of an endpoint: no map, an empty map, others only, a status,
\* a status beside others.
EvalAnnotations ==
    { Nil,
      Ptr([k \in {} |-> EmptyString]),
      ForeignAnnotations,
      StatusAnnotation(Status(Nil)),
      StatusAnnotation(Status(Ptr(ProvisioningStatus(OrderURI(1), 1, "pending")))),
      SetMetaDataAnnotation(ForeignAnnotations, AcmeStatusAnnotation,
                            jsonMarshal(Status(Nil))) }

EvalNeedsCertKey ==
    \E t \in 0..MaxEvalTime, tls \in EvalTLS, rnd \in BOOLEAN :
        LET route == Route(TRUE, FALSE, tls, Nil)
        IN /\ eval' = [fn |-> "needsCertKey", t |-> t, route |-> route, rnd |-> rnd,
                       out |-> needsCertKey(t, route, rnd)]
           /\ UNCHANGED <<cvars, qvars, avars>>

EvalGetStatus ==
    \E annotations \in EvalAnnotations :
        LET route == Route(TRUE, FALSE, Nil, annotations)
        IN /\ eval' = [fn |-> "getStatus", route |-> route, out |-> getStatus(route)]
           /\ UNCHANGED <<cvars, qvars, avars>>

EvalSetStatus ==
    \E x \in EvalStatuses, annotations \in EvalAnnotations, generation \in 1..2 :
        LET route == [Route(TRUE, FALSE, Nil, annotations) EXCEPT !.generation = generation]
            written == setStatus(route, x)
        IN /\ eval' = [fn |-> "setStatus", x |-> x, route |-> route,
                       written |-> written, read |-> getStatus(written)]
           /\ UNCHANGED <<cvars, qvars, avars>>

\* handle(key) at the time and for the endpoint needsCertKey was just
\* evaluated for (admitted, no annotations, no exposer objects), no call
\* failing.
EvalHandle ==
    /\ eval.fn = "needsCertKey"
    /\ LET c == handle(Context(eval.route, eval.route,
                               [Route |-> {}, ReplicaSet |-> {}, Service |-> {}], << >>),
                       [now |-> eval.t, fault |-> NoFault, rnd |-> eval.rnd,
                        tmpl |-> DefaultTemplate])
       IN eval' = [fn |-> "handle", t |-> eval.t, route |-> eval.route, rnd |-> eval.rnd,
                   reason |-> c.reason, result |-> c.res, trace |-> c.trace]
    /\ UNCHANGED <<cvars, qvars, avars>>

EvalNext == EvalNeedsCertKey \/ EvalGetStatus \/ EvalSetStatus

PolicyNext == EvalNeedsCertKey \/ EvalHandle

EvalSpec == QueueInit /\ [][EvalNext]_vars

PolicySpec == QueueInit /\ [][PolicyNext]_vars

----------------------------------------------------------------------------
(* The account controller's steps *)

\* A worker takes a key from ac.queue and runs sync.  A failed sync re-adds
\* the key (AddRateLimited); a ConfigMap update comes back as an update event
\* that enqueues the key.
AccountSync ==
    \E n \in aq :
    \E fault \in AccountFaults :
    \E c \in {sync(AccountContext(cms[n], secrets, accounts), [fault |-> fault])} :
        /\ fault = NoFault \/ c.fired = fault
        /\ c.res # "overflow"
        /\ cms' = [cms EXCEPT ![n] = c.cm]
        /\ secrets' = c.secrets
        /\ accounts' = c.accounts
        /\ aq' = (aq \ {n}) \cup (IF c.res = "err" \/ HasCallOut(c.trace, "UpdateConfigMap", "ok")
                                 THEN {n} ELSE {})
        /\ alast' = [ran |-> "sync", key |-> n, cm0 |-> cms[n], trace |-> c.trace,
                     result |-> c.res, fired |-> c.fired]
        /\ UNCHANGED <<cvars, qvars, evars>>

\* The author of a config changes its contacts; the update event enqueues it.
UserSetsContacts ==
    \E n \in CMNames :
    \E contacts \in ContactLists :
        /\ cms[n].exists /\ cms[n].data # Nil
        /\ ~yamlUnmarshal(Deref(cms[n].data)).err
        /\ LET certIssuer == yamlUnmarshal(Deref(cms[n].data)).v
           IN /\ certIssuer.acmeCertIssuer.account.contacts # contacts
              /\ cms' = [cms EXCEPT ![n].data =
                            Ptr(UserYaml([certIssuer EXCEPT
                                             !.acmeCertIssuer.account.contacts = contacts]))]
        /\ aq' = aq \cup {n}
        /\ alast' = NoSync
        /\ UNCHANGED <<secrets, accounts, cvars, qvars, evars>>

\* A secret is deleted and the informer calls deleteSecret.
SecretDeleted ==
    \E s \in SecretNames :
        /\ secrets[s] # Nil
        /\ secrets' = [secrets EXCEPT ![s] = Nil]
        /\ aq' = aq \cup deleteSecret(cms, s)
        /\ alast' = [ran |-> "deleteSecret", secret |-> s, cms0 |-> cms,
                     enqueued |-> deleteSecret(cms, s)]
        /\ UNCHANGED <<cms, accounts, cvars, qvars, evars>>

\* The configs are added; a secret under the name ConfigB gives may be there
\* already, with a key the CA does not know or with no key in it.
AccountInit ==
    /\ RouteInit /\ store = Route(TRUE, FALSE, Nil, Nil)
    /\ \E b \in InitConfigB : cms = [n \in CMNames |-> IF n = ConfigA THEN InitConfigA ELSE b]
    /\ \E s \in {Nil, Ptr(AccountKeyPem(UnregisteredKey)), Ptr(<<"garbage">>)} :
          secrets = [n \in SecretNames |-> IF n = AcctKeySecret THEN s ELSE Nil]
    /\ accounts = << >>
    /\ aq = {n \in CMNames : cms[n].exists}
    /\ alast = NoSync

AccountNext ==
    \/ AccountSync
    \/ UserSetsContacts
    \/ SecretDeleted

AccountSpec == AccountInit /\ [][AccountNext]_vars

----------------------------------------------------------------------------
(* Properties.  They speak about the invocation recorded in last and about *)
(* the state it left.                                                      *)

\* The invocation got past the skip conditions (exists, not deleted, admitted).
Handled == last.ran /\ last.rr.exists /\ ~last.rr.deletionTimestamp /\ last.rr.admitted

\* The provisioning status the invocation read, and the one stored now.
ReadStatus == getStatus(last.rr)
StoredStatus == getStatus(store)

ReadNull == ~ReadStatus.err /\ ReadStatus.status.provisioningStatus = Nil
ReadPS == Deref(ReadStatus.status.provisioningStatus)
StoredNull == ~StoredStatus.err /\ StoredStatus.status.provisioningStatus = Nil
StoredPS == Deref(StoredStatus.status.provisioningStatus)

\* No call failed and the process did not crash.
NoFailure == last.fired = NoFault /\ ~WriteFailed(last.trace)

Calls(op) == {k \in DOMAIN last.trace : last.trace[k].op = op}
CallsOut(op, out) == {k \in Calls(op) : last.trace[k].out = out}

\* The URI AuthorizeOrder returned in the invocation (when it succeeded).
NewURI == last.trace[CHOOSE k \in CallsOut("AuthorizeOrder", "ok") : TRUE].arg

HasTLS(route) ==
    /\ route.tls # Nil
    /\ Deref(route.tls).key # EmptyString
    /\ Deref(route.tls).certificate # EmptyString

\* C1: first-time provision.  On an admitted endpoint with a host, no TLS
\* material and no status annotation, an invocation in which no call fails
\* persists a status with a non-empty order URI (the first stage of the
\* provision, from which the exposer objects and the certificate follow).
C1_FirstProvisionPersistsOrder ==
    (/\ Handled
     /\ last.rr.tls = Nil
     /\ last.rr.annotations = Nil
     /\ NoFailure)
    => (/\ ~StoredStatus.err
        /\ ~StoredNull
        /\ Len(StoredPS.orderUri) > 0)

\* C2: IDLE to NEW_ORDER.  When the status read is null and the renewal
\* policy gives a reason, the invocation (no call failing) calls
\* AuthorizeOrder exactly once, persists the returned URI with
\* started_at = now, and returns without error.
C2_IdleToNewOrder ==
    (/\ Handled
     /\ ReadNull
     /\ last.reason \notin {"", "error"}
     /\ NoFailure)
    => (/\ Cardinality(Calls("AuthorizeOrder")) = 1
        /\ Cardinality(CallsOut("AuthorizeOrder", "ok")) = 1
        /\ last.result = "ok"
        /\ ~StoredNull
        /\ StoredPS.orderUri = NewURI
        /\ StoredPS.startedAt = last.now)

\* C3: no order is lost without a crash.  An invocation in which
\* AuthorizeOrder created an order, that was not cut short by a process
\* crash and had no failed store write, made the status update its next call
\* and left the order's URI in the stored status.
C3_OrderPersistedUnlessInterrupted ==
    (/\ last.ran
     /\ CallsOut("AuthorizeOrder", "ok") # {}
     /\ last.result # "crash"
     /\ ~WriteFailed(last.trace))
    => (/\ \A k \in CallsOut("AuthorizeOrder", "ok") :
              /\ k + 1 \in DOMAIN last.trace
              /\ last.trace[k + 1].op = "UpdateStatus"
              /\ last.trace[k + 1].out = "ok"
        /\ ~StoredNull
        /\ StoredPS.orderUri = NewURI)

\* The CA answered for the URI (AuthorizeOrder returned it, or GetOrder did
\* not fail for it) in the invocation.
ConfirmedNow(uri) ==
    \E k \in Calls("AuthorizeOrder") \cup Calls("GetOrder") :
        /\ last.trace[k].out \notin {"error", "acme-error", "notfound", "overflow"}
        /\ last.trace[k].arg = uri

\* C4 as stated (I1): after any invocation the persisted provisioning
\* status is null, or holds a non-empty order URI that the CA answered for
\* with a non-404 response within the last order_timeout.
C4_I1_AsStated ==
    Handled =>
        \/ StoredStatus.err
        \/ StoredNull
        \/ /\ Len(StoredPS.orderUri) > 0
           /\ confirmed.uri = StoredPS.orderUri
           /\ now - confirmed.at <= OrderTimeoutArg

\* C4: after an invocation that passed the skip conditions and returned
\* without error, the persisted provisioning status is null, or has an empty
\* order URI (the order was not found), or holds a URI for which the CA
\* answered in that same invocation (AuthorizeOrder returned it or GetOrder
\* gave a non-error response).  An invocation that fails leaves the persisted
\* status as it was.
C4_I1_PersistedStatus ==
    /\ (Handled /\ last.result = "ok") =>
          /\ ~StoredStatus.err
          /\ \/ StoredNull
             \/ Len(StoredPS.orderUri) = 0
             \/ /\ ConfirmedNow(StoredPS.orderUri)
                /\ confirmed = [uri |-> StoredPS.orderUri, at |-> last.now]
    /\ (last.ran /\ last.result # "ok") => store.annotations = last.rr.annotations

C4_Witness ==
    /\ Handled /\ last.result = "ok"
    /\ ~StoredNull
    /\ Len(StoredPS.orderUri) > 0
    /\ CallsOut("GetOrder", "pending") # {}
    /\ CallsOut("UpdateStatus", "ok") # {}

\* C5: READY/VALID install.  When the fetched order is ready or valid and
\* CreateOrderCert succeeds (no call failing), the invocation returns
\* success and the stored endpoint carries the new certificate and key and a
\* null provisioning status.
C5_ReadyValidInstall ==
    (/\ Handled
     /\ CallsOut("GetOrder", "ready") \cup CallsOut("GetOrder", "valid") # {}
     /\ CallsOut("CreateOrderCert", "ok") # {}
     /\ last.fired = NoFault)
    => (/\ last.result = "ok"
        /\ HasTLS(store)
        /\ Deref(store.tls).certificate = CertPem(store.host, last.now, last.now + CertLifetime)
        /\ StoredNull)

\* C6: order 404.  (a) When GetOrder answers 404 for the persisted URI and
\* nothing else fails, the invocation returns without error and the stored
\* status is non-null with an empty order URI and otherwise as read, and a
\* following invocation calls AuthorizeOrder.  (b) For any other GetOrder
\* error the invocation returns the error and the stored endpoint is the
\* one it read.
C6_OrderNotFound ==
    /\ (Handled /\ CallsOut("GetOrder", "notfound") # {} /\ NoFailure)
       => (/\ last.result = "ok"
           /\ ~StoredNull
           /\ StoredPS = [ReadPS EXCEPT !.orderUri = EmptyString]
           /\ HasCall(handle(Start, Inputs(NoFault, FALSE, DefaultTemplate)).trace,
                      "AuthorizeOrder"))
    /\ (Handled /\ CallsOut("GetOrder", "error") \cup CallsOut("GetOrder", "acme-error") # {})
       => (/\ last.result = "err"
           /\ Calls("UpdateStatus") = {}
           /\ store = last.rr)

C6_Witness ==
    /\ Handled /\ NoFailure
    /\ CallsOut("GetOrder", "notfound") # {}
    /\ CallsOut("UpdateStatus", "ok") # {}
    /\ Len(ReadPS.orderUri) > 0
    /\ ~IsStuck(last.now, ReadPS.startedAt)

C6_WitnessOtherError ==
    Handled /\ CallsOut("GetOrder", "acme-error") # {} /\ last.result = "err"

\* C7: stuck-order clearing.  For a persisted status with a non-empty order
\* URI, the invocation clears the status without fetching the order if and
\* only if now > started_at + order_timeout, order_timeout being the
\* constructor's argument; a younger order is fetched.
C7_StuckIffTimedOut ==
    (/\ Handled
     /\ ~ReadStatus.err /\ ~ReadNull
     /\ Len(ReadPS.orderUri) > 0
     /\ last.fired = NoFault)
    => LET timedOut == last.now > ReadPS.startedAt + OrderTimeoutArg
       IN /\ (Calls("ClearStuck") # {}) <=> timedOut
          /\ timedOut => (Calls("GetOrder") = {} /\ StoredNull /\ last.result = "ok")
          /\ ~timedOut => Calls("GetOrder") # {}

\* The exposer name handle derives for the challenge with this URI.
ExposerName(challengeURI) ==
    getTemporaryName(TemporaryKey(last.rr.name, OrderURI(challengeURI[2]),
                                  AuthzURL(challengeURI[2], challengeURI[3]), challengeURI))

ExposerOps(kind) == {"Create" \o kind, "Get" \o kind, "Collision" \o kind, "Update" \o kind}

\* Trace entry k is the successful create or update of the object of this
\* kind and name.
Materialized(k, kind, name) ==
    /\ last.trace[k].op \in {"Create" \o kind, "Update" \o kind}
    /\ last.trace[k].out = "ok"
    /\ last.trace[k].arg = <<name>>

\* Trace entry k is a failed step of create-or-adopt.
ExposerFailed(k) ==
    /\ last.trace[k].op \in UNION {ExposerOps(kind) : kind \in {"Route", "ReplicaSet", "Service"}}
    /\ last.trace[k].out \in {"error", "conflict"}

\* C8: PENDING ordering.  Every Accept(challenge) of an invocation comes
\* after the successful create or adoption, in that invocation, of the
\* exposer route, then the replica set, then the service of that challenge;
\* when a step of create-or-adopt fails the invocation ends there: no Accept
\* follows and no status is persisted.
C8_AcceptAfterExposer ==
    last.ran =>
        /\ \A k \in Calls("Accept") :
              \E k1, k2, k3 \in 1..(k - 1) :
                  /\ k1 < k2 /\ k2 < k3
                  /\ Materialized(k1, "Route", ExposerName(last.trace[k].arg))
                  /\ Materialized(k2, "ReplicaSet", ExposerName(last.trace[k].arg))
                  /\ Materialized(k3, "Service", ExposerName(last.trace[k].arg))
        /\ \A k \in DOMAIN last.trace :
              ExposerFailed(k) =>
                  /\ k = Len(last.trace)
                  /\ last.result = "err"
                  /\ Calls("UpdateStatus") = {}
                  /\ store = last.rr

C8_Witness ==
    /\ last.ran
    /\ CallsOut("Accept", "ok") # {}
    /\ CallsOut("CreateService", "ok") # {}
    /\ CallsOut("UpdateStatus", "ok") # {}

C8_WitnessFailure ==
    /\ last.ran
    /\ CallsOut("CreateService", "error") # {}
    /\ CallsOut("CreateReplicaSet", "ok") # {}

\* The most authorizations an order has, and challenges an authorization.
MaxAuthzs ==
    CHOOSE n \in 0..9 :
        /\ \A tmpl \in OrderTemplates : Len(tmpl) <= n
        /\ \E tmpl \in OrderTemplates : Len(tmpl) = n
MaxChallenges ==
    CHOOSE n \in 0..9 :
        /\ \A tmpl \in OrderTemplates : \A i \in DOMAIN tmpl : Len(tmpl[i]) <= n
        /\ \E tmpl \in OrderTemplates : \E i \in DOMAIN tmpl : Len(tmpl[i]) = n

\* The exposer names handle can derive for the stored endpoint.
ExposerNames ==
    { getTemporaryName(TemporaryKey(store.name, OrderURI(o), AuthzURL(o, i),
                                    ChallengeURI(o, i, j))) :
        o \in 1..MaxOrders, i \in 1..MaxAuthzs, j \in 1..MaxChallenges }

RefersTo(obj, owner) ==
    \E k \in DOMAIN obj.ownerReferences :
        /\ obj.ownerReferences[k].kind = "Route"
        /\ obj.ownerReferences[k].name = owner.name
        /\ obj.ownerReferences[k].uid = owner.uid

TripleExisted(name) ==
    /\ \E r \in last.exposers0.Route :
          /\ r.name = name
          /\ IsControlledBy(r, last.rr)
          /\ \E x \in last.exposers0.ReplicaSet : x.name = name /\ RefersTo(x, r)
          /\ \E y \in last.exposers0.Service : y.name = name /\ RefersTo(y, r)

\* C10: create-or-adopt is idempotent.  When the PENDING step runs for a
\* pending challenge whose exposer triple an earlier invocation created,
\* and no call fails, every create that answers already-exists is followed
\* by get, a passing ownership check and update, and the invocation goes on
\* to Accept the challenge.
C10_AdoptProceedsToAccept ==
    (Handled /\ last.fired = NoFault) =>
        \A k \in CallsOut("CreateRoute", "exists") :
            TripleExisted(last.trace[k].arg[1]) =>
                /\ \A kind \in {"Route", "ReplicaSet", "Service"} :
                      /\ \E k1 \in CallsOut("Create" \o kind, "exists") :
                            /\ last.trace[k1].arg = last.trace[k].arg
                            /\ k1 + 2 \in DOMAIN last.trace
                            /\ last.trace[k1 + 1].op = "Get" \o kind
                            /\ last.trace[k1 + 1].out = "ok"
                            /\ last.trace[k1 + 2].op = "Update" \o kind
                            /\ last.trace[k1 + 2].out = "ok"
                /\ \E k2 \in CallsOut("Accept", "ok") :
                      /\ k2 > k
                      /\ ExposerName(last.trace[k2].arg) = last.trace[k].arg[1]

\* Some owner reference of obj is a controller reference to owner.
HasControllerRefTo(obj, owner) ==
    \E ref \in {obj.ownerReferences[k] : k \in DOMAIN obj.ownerReferences} :
        ref.controller /\ ref.uid = owner.uid

\* C11: collision on the exposer route.  When a Route of the temporary
\* name exists that the endpoint does not control, the invocation fails with
\* the collision error right after reading it: the Route found stays as it
\* was, no exposer replica set or service of that name is created and the
\* challenge is not accepted; nothing of the endpoint is written.
C11_RouteCollision ==
    (last.ran /\ last.fired = NoFault) =>
        \A k \in CallsOut("CreateRoute", "exists") :
            LET name == last.trace[k].arg[1]
                found == Existing(last.exposers0.Route, name)
            IN ~HasControllerRefTo(found, last.rr) =>
                  /\ last.result = "err"
                  /\ Len(last.trace) = k + 2
                  /\ last.trace[k + 1].op = "GetRoute"
                  /\ last.trace[k + 2].op = "CollisionRoute"
                  /\ found \in foreign
                  /\ ~\E x \in routes \cup rss \cup svcs : x.name = name
                  /\ \A k2 \in DOMAIN last.trace :
                        /\ last.trace[k2].op \in
                              {"UpdateRoute", "CreateReplicaSet", "CreateService"}
                              => last.trace[k2].arg # <<name>>
                        /\ last.trace[k2].op = "Accept"
                              => ExposerName(last.trace[k2].arg) # name
                  /\ store = last.rr

C11_Witness ==
    /\ last.ran /\ last.fired = NoFault
    /\ CallsOut("CollisionRoute", "error") # {}
    /\ \E x \in foreign : x.ownerReferences # << >>

\* The workers that are inside handle for the item.
InFlight(item) == {w \in Workers : workers[w] = InHandle(item)}

\* C12 (I3): no two runs of handle for the same key are in flight at the
\* same time, whatever the workers, events, rate-limited requeues and timers
\* do; a key in flight is marked processing and is not in the queue (an Add
\* meanwhile only marks it dirty), so it is handed out again only after Done.
C12_I3_OneRunPerKey ==
    \A item \in Items :
        /\ Cardinality(InFlight(item)) <= 1
        /\ InFlight(item) # {} => (item \in wq.processing /\ item \notin Queued(wq))
        /\ item \in wq.processing => item \notin Queued(wq)

C12_Witness ==
    /\ InFlight(KeyItem) # {}
    /\ KeyItem \in wq.dirty
    /\ \E w \in Workers : workers[w] = AtGet

\* C13: endpoint retry discipline.  A failed run requeues the key
\* rate-limited exactly when its requeue count is below MaxRetries, so with
\* no event in between the key is handled at most MaxRetries + 1 times in a
\* row; when the key is dropped and when a run succeeds the requeue count
\* is reset.
C13_RetryDiscipline ==
    /\ hist.ret.run <= MaxRetries + 1
    /\ hist.ret.out = "err" =>
          /\ hist.ret.requeued <=> hist.ret.before < MaxRetries
          /\ ~hist.ret.requeued => hist.ret.after = 0
    /\ hist.ret.out = "ok" => (hist.ret.after = 0 /\ ~hist.ret.requeued)

C13_Witness ==
    /\ hist.ret.run = MaxRetries + 1
    /\ hist.ret.out = "err"
    /\ ~hist.ret.requeued
    /\ hist.ret.before = MaxRetries
    /\ hist.ret.after = 0

\* C14: endpoint skip conditions.  When the endpoint is absent from the
\* cache, is being deleted or is not admitted, the invocation returns nil
\* having made no call at all (no ACME call, no write): the endpoint and the
\* exposer objects are as they were.
C14_SkipConditions ==
    (last.ran /\ (~last.rr.exists \/ last.rr.deletionTimestamp \/ ~last.rr.admitted))
    => (/\ last.result = "ok"
        /\ last.trace = << >>
        /\ store = last.rr
        /\ routes \cup foreign = last.exposers0.Route
        /\ rss = last.exposers0.ReplicaSet
        /\ svcs = last.exposers0.Service)

C14_Witness ==
    /\ last.ran /\ last.result = "ok"
    /\ last.rr.exists /\ ~last.rr.deletionTimestamp /\ ~last.rr.admitted
    /\ last.rr.tls = Nil

C14_WitnessAbsent == last.ran /\ ~last.rr.exists

C14_WitnessDeleted == last.ran /\ last.rr.exists /\ last.rr.deletionTimestamp

\* The endpoint's certificate is for its host and valid at t, and at most a
\* third of its lifetime remains.
InRenewalPeriod(route, t) ==
    /\ route.tls # Nil
    /\ Deref(route.tls).key # EmptyString
    /\ LET crt == Deref(route.tls).certificate
       IN /\ Len(crt) = 4
          /\ crt[2] = route.host
          /\ crt[3] <= t /\ t <= crt[4]
          /\ 3 * (crt[4] - t) <= crt[4] - crt[3]

\* C15 (I7): for an admitted endpoint with null provisioning status whose
\* certificate matches the host, is unexpired and has at most a third of its
\* lifetime left, the renewal policy gives a reason whatever the random
\* sample is, and the invocation (once it has its ACME client) calls
\* AuthorizeOrder.
C15_I7_RenewalIssued ==
    (/\ Handled
     /\ ReadNull
     /\ InRenewalPeriod(last.rr, last.now)
     /\ CallsOut("GetClient", "ok") # {})
    => (/\ last.reason = "In renewal period"
        /\ \A rnd \in BOOLEAN :
              needsCertKey(last.now, last.rr, rnd) =
                  [reason |-> "In renewal period", err |-> FALSE]
        /\ Calls("AuthorizeOrder") # {})

C15_Witness ==
    /\ Handled /\ ReadNull
    /\ InRenewalPeriod(last.rr, last.now)
    /\ CallsOut("AuthorizeOrder", "ok") # {}

\* The certificate of the evaluated endpoint is for its host and valid at t.
EvalValidMatching ==
    /\ eval.fn = "needsCertKey"
    /\ eval.route.tls # Nil
    /\ Deref(eval.route.tls).key # EmptyString
    /\ LET crt == Deref(eval.route.tls).certificate
       IN /\ Len(crt) = 4
          /\ crt[2] = eval.route.host
          /\ crt[3] <= eval.t /\ eval.t <= crt[4]

EvalRemains == Deref(eval.route.tls).certificate[4] - eval.t
EvalLifetime ==
    Deref(eval.route.tls).certificate[4] - Deref(eval.route.tls).certificate[3]

\* C16 as stated (I5): for a certificate that is unexpired at the evaluation
\* time and matches the endpoint's hostname, needsCertKey returns no reason.
C16_I5_AsStated ==
    EvalValidMatching => eval.out = [reason |-> "", err |-> FALSE]

\* C16: for a certificate that is valid at the evaluation time and matches
\* the endpoint's hostname, needsCertKey returns no error, and returns no
\* reason exactly when more than a third of the lifetime remains and either
\* more than half of it remains or the random sample is not negative.
C16_I5_NoReasonOutsideRenewal ==
    EvalValidMatching =>
        /\ ~eval.out.err
        /\ eval.out.reason = ""
              <=> /\ 3 * EvalRemains > EvalLifetime
                  /\ (2 * EvalRemains > EvalLifetime \/ ~eval.rnd)
        /\ 3 * EvalRemains <= EvalLifetime => eval.out.reason = "In renewal period"
        /\ eval.out.reason \in {"", "In renewal period", "Proactive renewal"}

C16_Witness ==
    /\ EvalValidMatching
    /\ 2 * EvalRemains > EvalLifetime
    /\ eval.rnd
    /\ eval.out = [reason |-> "", err |-> FALSE]

\* The endpoint read carries a key and a decodable certificate for another
\* hostname than its own.
HostMismatch(route) ==
    /\ route.tls # Nil
    /\ Deref(route.tls).key # EmptyString
    /\ LET crt == Deref(route.tls).certificate
       IN Len(crt) = 4 /\ crt[1] = "cert" /\ crt[2] # route.host

Expired(route, t) == t > Deref(route.tls).certificate[4]

\* C17: when an idle endpoint's certificate does not match its hostname, the
\* handler returns an error, creates no order and leaves the endpoint as it
\* was, whether or not that certificate has expired.
C17_HostMismatchIsError ==
    (Handled /\ ReadNull /\ HostMismatch(last.rr) /\ CallsOut("GetClient", "ok") # {})
    => (/\ last.result = "err"
        /\ Calls("AuthorizeOrder") = {}
        /\ store = last.rr)

C17_Witness ==
    /\ Handled /\ ReadNull /\ HostMismatch(last.rr)
    /\ CallsOut("GetClient", "ok") # {}
    /\ Expired(last.rr, last.now)
    /\ last.result = "err"

C17_WitnessUnexpired ==
    /\ Handled /\ ReadNull /\ HostMismatch(last.rr)
    /\ CallsOut("GetClient", "ok") # {}
    /\ ~Expired(last.rr, last.now)
    /\ last.result = "err"

C18_WitnessNull ==
    /\ eval.fn = "setStatus"
    /\ eval.x.provisioningStatus = Nil
    /\ eval.route.annotations = Nil
    /\ ~eval.read.err
    /\ eval.read.status.provisioningStatus = Nil

\* The endpoint has no status annotation.
NoStatusAnnotation(route) ==
    \/ route.annotations = Nil
    \/ AcmeStatusAnnotation \notin DOMAIN Deref(route.annotations)

\* C19: getStatus of an endpoint without the status annotation returns the
\* zero status (null provisioning status) and no error, whether the endpoint
\* has no annotations at all or only other annotations.
C19_AbsentAnnotationZero ==
    (eval.fn = "getStatus" /\ NoStatusAnnotation(eval.route))
    => eval.out = [err |-> FALSE, status |-> ZeroStatus]

\* The earliest "http-01" entry of a challenge list, 0 when there is none.
FirstHTTP01(challenges) ==
    LET http == {j \in DOMAIN challenges : challenges[j].type = "http-01"}
    IN IF http = {} THEN 0 ELSE CHOOSE j \in http : \A k \in http : j <= k

\* The challenge list of the authorization a challenge URI belongs to.
ChallengesOf(uri) == orders[uri[2]].authzs[uri[3]].challenges

\* C20: the challenge the handler exposes and accepts for an authorization is
\* the first "http-01" challenge of the authorization's list, also when the
\* list holds several; with no "http-01" challenge the invocation fails.
C20_FirstHTTP01Selected ==
    Handled =>
        /\ \A k \in Calls("Accept") :
              LET uri == last.trace[k].arg
              IN /\ uri[4] = FirstHTTP01(ChallengesOf(uri))
                 /\ \E k1 \in 1..(k - 1) :
                       /\ last.trace[k1].op = "CreateRoute"
                       /\ last.trace[k1].arg = <<ExposerName(uri)>>
        /\ Calls("NoViableChallenge") # {} => last.result = "err"

\* The authorization statuses the handler skips.
SkippedAuthzStatuses == {"valid", "invalid", "deactivated", "expired", "revoked"}

\* Trace entry k2 is an exposer call or an Accept for the authorization.
ActsOnAuthz(k2, authzUrl) ==
    \/ /\ last.trace[k2].op = "Accept"
       /\ AuthzURL(last.trace[k2].arg[2], last.trace[k2].arg[3]) = authzUrl
    \/ /\ last.trace[k2].op \in
              UNION {ExposerOps(kind) : kind \in {"Route", "ReplicaSet", "Service"}}
       /\ last.trace[k2].arg[1][2][3] = authzUrl

\* C21: within a pending order, an authorization that is valid, invalid,
\* deactivated, expired or revoked gets no exposer object and no Accept and
\* the handler goes on with the next authorization; exposer calls and Accept
\* are made for pending authorizations only; any other authorization status
\* ends the invocation with an error and nothing persisted.
C21_AuthzSubStates ==
    Handled =>
        \A k \in Calls("GetAuthorization") :
            LET authzUrl == last.trace[k].arg
                out == last.trace[k].out
                n == Len(orders[authzUrl[2]].authzs)
            IN /\ out \in SkippedAuthzStatuses =>
                    /\ \A k2 \in DOMAIN last.trace : ~ActsOnAuthz(k2, authzUrl)
                    /\ authzUrl[3] < n =>
                          /\ k + 1 \in DOMAIN last.trace
                          /\ last.trace[k + 1].op = "GetAuthorization"
                          /\ last.trace[k + 1].arg = AuthzURL(authzUrl[2], authzUrl[3] + 1)
                    /\ authzUrl[3] = n /\ k + 1 \in DOMAIN last.trace =>
                          last.trace[k + 1].op = "UpdateStatus"
               /\ (\E k2 \in DOMAIN last.trace : ActsOnAuthz(k2, authzUrl)) => out = "pending"
               /\ out \notin SkippedAuthzStatuses \cup {"pending", "error"} =>
                    /\ last.result = "err"
                    /\ k = Len(last.trace)
                    /\ store = last.rr

\* A skipped authorization followed by a pending one that is exposed and
\* accepted.
C21_Witness ==
    /\ Handled
    /\ \E k \in Calls("GetAuthorization") :
          /\ last.trace[k].out \in SkippedAuthzStatuses
          /\ \E k2 \in CallsOut("GetAuthorization", "pending") : k2 = k + 1
    /\ CallsOut("Accept", "ok") # {}

C21_WitnessOtherStatus ==
    /\ Handled
    /\ CallsOut("GetAuthorization", "processing") # {}
    /\ last.result = "err"

\* The status read holds an order URI and the order status "invalid".
ReadInvalid ==
    /\ ~ReadStatus.err
    /\ ReadStatus.status.provisioningStatus # Nil
    /\ ReadPS.orderUri # EmptyString
    /\ ReadPS.orderStatus = "invalid"

\* C22: when the order fetched is invalid, the invocation creates no order
\* and, its write succeeding, leaves a non-null provisioning status with the
\* same order URI and start time and the order status "invalid"; an
\* invocation later than the start time plus the order timeout that obtains
\* its ACME client clears the provisioning status by the stuck step, without
\* asking the CA.
C22_InvalidOrder ==
    Handled =>
        /\ CallsOut("GetOrder", "invalid") # {} =>
              /\ Calls("AuthorizeOrder") = {}
              /\ NoFailure =>
                    /\ last.result = "ok"
                    /\ ~StoredStatus.err
                    /\ StoredStatus.status.provisioningStatus # Nil
                    /\ StoredPS = [ReadPS EXCEPT !.orderStatus = "invalid"]
        /\ (/\ ReadInvalid /\ last.now > ReadPS.startedAt + OrderTimeoutArg
            /\ CallsOut("GetClient", "ok") # {}) =>
              /\ Calls("ClearStuck") # {}
              /\ Calls("GetOrder") = {} /\ Calls("AuthorizeOrder") = {}
              /\ NoFailure => StoredNull

\* The invalid order was recorded.
C22_Witness ==
    /\ Handled /\ NoFailure
    /\ CallsOut("GetOrder", "invalid") # {}
    /\ ~StoredStatus.err /\ StoredStatus.status.provisioningStatus # Nil
    /\ StoredPS.orderStatus = "invalid" /\ StoredPS.orderUri = OrderURI(1)

\* The recorded invalid order was cleared after the timeout.
C22_WitnessCleared ==
    /\ Handled /\ NoFailure
    /\ ReadInvalid /\ last.now > ReadPS.startedAt + OrderTimeoutArg
    /\ StoredNull

\* The last step was a sync of an acme issuer config that got as far as
\* looking up its secret.
Synced == alast.ran = "sync"

ACalls(op) == {k \in DOMAIN alast.trace : alast.trace[k].op = op}
ACallsOut(op, out) == {k \in ACalls(op) : alast.trace[k].out = out}

\* The issuer the sync read, and the secret name it used.
ReadIssuer == yamlUnmarshal(Deref(alast.cm0.data)).v.acmeCertIssuer
ReadSecretName ==
    IF Len(ReadIssuer.accountCredentialsSecretName) = 0 THEN alast.cm0.name
    ELSE ReadIssuer.accountCredentialsSecretName

\* C23: when the account-key secret is not found, sync calls Register before
\* it creates the secret, creates the secret only after Register succeeded,
\* stores in it the key it registered, and when Register fails returns an
\* error with no secret created and the config not written.
C23_RegisterBeforeSecret ==
    (Synced /\ ACallsOut("GetSecret", "notfound") # {}) =>
        /\ \A k \in ACalls("CreateSecret") :
              \E k1 \in ACallsOut("Register", "ok") :
                  /\ k1 < k
                  /\ alast.trace[k1].arg[1] = alast.trace[k].arg[2]
        /\ \A k \in ACallsOut("CreateSecret", "ok") :
              /\ alast.trace[k].arg[2] \in DOMAIN accounts
              /\ secrets[ReadSecretName] = Ptr(AccountKeyPem(alast.trace[k].arg[2]))
        /\ ACallsOut("Register", "error") # {} =>
              /\ alast.result = "err"
              /\ ACalls("CreateSecret") = {}
              /\ ACalls("UpdateConfigMap") = {}
              /\ secrets[ReadSecretName] = Nil
              /\ cms[alast.key] = alast.cm0

C23_Witness ==
    /\ Synced
    /\ ACallsOut("GetSecret", "notfound") # {}
    /\ ACallsOut("Register", "ok") # {}
    /\ ACallsOut("CreateSecret", "ok") # {}
    /\ secrets[ReadSecretName] # Nil

C23_WitnessRegisterFails ==
    /\ Synced
    /\ ACallsOut("Register", "error") # {}
    /\ alast.result = "err"

\* The sync found the secret and decoded its key.
SecretFound ==
    /\ Synced
    /\ ACallsOut("GetSecret", "ok") # {}
    /\ ACalls("PrivateKeyFromSecret") = {}

\* The hash a previous sync stored agrees with the contacts read now.
HashAgrees == ReadIssuer.account.status.hash = Sprint(hashAccount(ReadIssuer.account))

\* C24: when the secret exists and the contacts of the config differ from
\* those of the last reconcile (their hash differs from the stored hash),
\* sync calls UpdateReg with the new contacts.
C24_ContactChangeUpdates ==
    (/\ SecretFound
     /\ ReadIssuer.account.status.hash # EmptyString
     /\ ~HashAgrees
     /\ alast.fired = NoFault)
    => \E k \in ACalls("UpdateReg") : alast.trace[k].arg[2] = ReadIssuer.account.contacts

\* C25 (I6): in a sync where the secret exists and the stored hash agrees
\* with the hash of the config's contacts, no UpdateReg call is made.
C25_I6_NoUpdateWhenHashAgrees ==
    (SecretFound /\ HashAgrees) => ACalls("UpdateReg") = {}

C25_Witness ==
    /\ SecretFound /\ HashAgrees
    /\ ReadIssuer.account.status.uri # EmptyString
    /\ alast.result = "ok"
    /\ ACalls("UpdateReg") = {}

\* The status the config holds now.
StoredIssuer == yamlUnmarshal(Deref(cms[alast.key].data)).v.acmeCertIssuer

\* C26: when the secret exists, its key decodes, the stored URI is empty and
\* the stored hash agrees with the contacts, sync calls GetReg and not
\* UpdateReg; when GetReg answers, the config is written back with the
\* account URI of the secret's key, unless the write fails.
C26_AccountRecovery ==
    (SecretFound /\ HashAgrees /\ ReadIssuer.account.status.uri = EmptyString) =>
        /\ ACalls("UpdateReg") = {}
        /\ ACalls("GetReg") # {}
        /\ \A k \in ACallsOut("GetReg", "ok") :
              /\ ACalls("UpdateConfigMap") # {}
              /\ ACallsOut("UpdateConfigMap", "ok") # {} =>
                    /\ alast.result = "ok"
                    /\ StoredIssuer.account.status.uri = AccountURI(alast.trace[k].arg[1])
                    /\ secrets[ReadSecretName] = Ptr(AccountKeyPem(alast.trace[k].arg[1]))

C26_Witness ==
    /\ SecretFound /\ HashAgrees /\ ReadIssuer.account.status.uri = EmptyString
    /\ ACallsOut("GetReg", "ok") # {}
    /\ ACallsOut("UpdateConfigMap", "ok") # {}
    /\ StoredIssuer.account.status.uri # EmptyString

\* C27: a sync never changes or removes a secret that exists; it changes the
\* secrets only by creating the one it found missing.
C27_AccountKeyWriteOnce ==
    [][alast'.ran = "sync" =>
          \A s \in SecretNames :
              /\ secrets[s] # Nil => secrets'[s] = secrets[s]
              /\ secrets'[s] # secrets[s] =>
                    /\ secrets[s] = Nil
                    /\ \E k \in DOMAIN alast'.trace :
                          /\ alast'.trace[k].op = "GetSecret"
                          /\ alast'.trace[k].out = "notfound"
                          /\ alast'.trace[k].arg = <<s>>]_vars

\* A sync that found a secret it could not use, and left it alone.
C27_Witness ==
    /\ Synced
    /\ ACallsOut("GetSecret", "ok") # {}
    /\ ACalls("PrivateKeyFromSecret") # {}
    /\ secrets[ReadSecretName] = Ptr(<<"garbage">>)

\* The secret name a config uses: its own name when it gives none.
SecretNameOf(cm) ==
    LET name == yamlUnmarshal(Deref(cm.data)).v.acmeCertIssuer.accountCredentialsSecretName
    IN IF Len(name) = 0 THEN cm.name ELSE name

\* The acme issuer configs among those deleteSecret lists.
IsAcmeIssuer(cm) ==
    /\ cm.exists /\ cm.data # Nil
    /\ ~yamlUnmarshal(Deref(cm.data)).err
    /\ yamlUnmarshal(Deref(cm.data)).v.type = CertIssuerTypeAcme

\* C28: when a secret is deleted, exactly the acme issuer configs whose secret
\* name, an empty name standing for the config's own name, is the deleted
\* secret's name are enqueued.
C28_SecretDeletionFanOut ==
    alast.ran = "deleteSecret" =>
        /\ alast.enqueued =
              {n \in CMNames : IsAcmeIssuer(alast.cms0[n])
                               /\ SecretNameOf(alast.cms0[n]) = alast.secret}
        /\ alast.enqueued \subseteq aq

----------------------------------------------------------------------------
(* Panics of handle (QueueSpec) *)

\* The step in which worker w's handle panics and processNextItem unwinds.
HandlePanics(w) == workers[w].pc = "handle" /\ workers'[w].pc = "panic"

\* The first step of worker w after its panic left runWorker.
AfterPanic(w) == workers[w].pc = "panic" /\ workers'[w] # workers[w]

\* C29 (panic containment): when an invocation of handle panics, the key is
\* marked done in the queue (it is no longer processing when the panic leaves
\* processNextItem), and the panic is recovered: the worker is next waiting in
\* queue.Get again, with the queue as the panic left it, so that it goes on
\* to process the keys that are queued.
C29_PanicContainment ==
    [][\A w \in Workers :
          /\ HandlePanics(w) => workers[w].item \notin wq'.processing
          /\ AfterPanic(w) => workers'[w] = AtGet /\ wq' = wq]_vars

\* The part of C29 that processNextItem decides: the deferred Done runs when
\* handle panics, and handleErr does not (no requeue, no Forget).
C29_DoneOnPanic ==
    [][\A w \in Workers :
          HandlePanics(w) =>
              /\ workers[w].item \notin wq'.processing
              /\ wq'.failures = wq.failures
              /\ wq'.waiting = wq.waiting]_vars

----------------------------------------------------------------------------
(* The renewal policy against its decision procedure (PolicySpec) *)

\* The decision procedure of the renewal policy, step by step, over the PEM
\* text of the endpoint's certificate; rnd is "the sample is negative".
RenewalPolicy(t, route, rnd) ==
    LET reason(r) == [reason |-> r, err |-> FALSE]
        error == [reason |-> "", err |-> TRUE]
    IN IF route.tls = Nil THEN reason("Route is missing CertKey")
       ELSE LET key == Deref(route.tls).key
                pem == Deref(route.tls).certificate
            IN IF key = EmptyString \/ pem = EmptyString
               THEN reason("Route is missing CertKey")
               ELSE IF Len(pem) # 4 THEN error
               ELSE IF pem[1] # "cert" \/ pem[2] # route.host THEN error
               ELSE IF t > pem[4] THEN reason("Already expired")
               ELSE IF 3 * (pem[4] - t) <= pem[4] - pem[3] THEN reason("In renewal period")
               ELSE IF 2 * (pem[4] - t) <= pem[4] - pem[3] /\ rnd
                    THEN reason("Proactive renewal")
               ELSE reason("")

\* The evaluated endpoint carries a key and a certificate for its own host
\* that expired before t.
EvalExpiredMatching ==
    /\ eval.route.tls # Nil
    /\ Deref(eval.route.tls).key # EmptyString
    /\ LET crt == Deref(eval.route.tls).certificate
       IN Len(crt) = 4 /\ crt[2] = eval.route.host /\ eval.t > crt[4]

\* C30: for every endpoint, time and sample, needsCertKey returns what the
\* decision procedure returns (missing; else error for an undecodable or
\* mismatching certificate; else "Already expired"; else "In renewal period"
\* with at most a third of the lifetime left; else "Proactive renewal" with
\* at most half of it left and a negative sample; else no reason).  The
\* handler of an idle endpoint acts on that decision: an error ends it with
\* an error, no reason ends it without an order, and a reason, in particular
\* "Already expired" for an expired certificate of the endpoint's host, takes
\* it to the new-order step, where it calls AuthorizeOrder.
C30_RenewalPolicy ==
    /\ eval.fn = "needsCertKey" =>
          eval.out = RenewalPolicy(eval.t, eval.route, eval.rnd)
    /\ eval.fn = "handle" =>
          LET d == RenewalPolicy(eval.t, eval.route, eval.rnd)
              newOrder == { k \in DOMAIN eval.trace : eval.trace[k].op = "AuthorizeOrder" }
          IN /\ eval.reason = (IF d.err THEN "error" ELSE d.reason)
             /\ d.err => eval.result = "err"
             /\ (d.err \/ d.reason = "") <=> newOrder = {}
             /\ EvalExpiredMatching =>
                   eval.reason = "Already expired" /\ newOrder # {}

C30_Witness ==
    /\ eval.fn = "handle"
    /\ EvalExpiredMatching
    /\ eval.reason = "Already expired"
    /\ HasCallOut(eval.trace, "AuthorizeOrder", "ok")

C30_WitnessProactive ==
    /\ eval.fn = "needsCertKey"
    /\ eval.out = [reason |-> "Proactive renewal", err |-> FALSE]
    /\ eval.out # needsCertKey(eval.t, eval.route, ~eval.rnd)

----------------------------------------------------------------------------
(* The account reconcile as a fixpoint (AccountSpec) *)

\* The sync found the secret, read a status with an account URI and a hash
\* that agrees with the contacts, and made no call to the CA; nothing failed.
NoRPCSync ==
    /\ SecretFound /\ HashAgrees
    /\ ReadIssuer.account.status.uri # EmptyString
    /\ ACalls("Register") = {} /\ ACalls("UpdateReg") = {} /\ ACalls("GetReg") = {}
    /\ alast.fired = NoFault

\* C31 (fixpoint): a sync that finds the secret and makes no call to the CA
\* (the status holds the account URI already and the contacts are unchanged)
\* leaves the URI, the orders URL and the account status of the config as
\* they were and does not write the config, so that the reconciles its own
\* writes trigger come to an end.
C31_AccountFixpoint ==
    NoRPCSync =>
        /\ ACalls("UpdateConfigMap") = {}
        /\ cms[alast.key] = alast.cm0
        /\ StoredIssuer.account.status.uri = ReadIssuer.account.status.uri
        /\ StoredIssuer.account.status.ordersURL = ReadIssuer.account.status.ordersURL
        /\ StoredIssuer.account.status.accountStatus = ReadIssuer.account.status.accountStatus

\* What sync does instead: it merges the account it built itself, which has
\* no URI, so it writes the config with the URI, the orders URL and the
\* account status emptied, and the write enqueues the config again; the next
\* sync then asks the CA (GetReg) and writes them back.
C31_NoRPCSyncClears ==
    NoRPCSync =>
        /\ ACallsOut("UpdateConfigMap", "ok") # {}
        /\ StoredIssuer.account.status.uri = EmptyString
        /\ StoredIssuer.account.status.ordersURL = EmptyString
        /\ StoredIssuer.account.status.accountStatus = ""
        /\ alast.key \in aq

----------------------------------------------------------------------------
(* The items of the work queue (QueueSpec) *)

\* Every item the queue holds: queued, marked dirty, handed to a worker, or
\* waiting for its timer.
QueueItems == Queued(wq) \cup wq.dirty \cup wq.processing \cup wq.waiting

\* C32: every item on the work queue, whether an event handler, a
\* rate-limited requeue or the delayed re-enqueue of the "processing" branch
\* put it there, is the endpoint's namespace/name key, so that every item a
\* worker takes is handled as a key: the item of a worker that is past
\* queue.Get is a key.
C32_QueueItemsAreKeys ==
    /\ \A item \in QueueItems : IsString(item)
    /\ \A w \in Workers : workers[w].pc # "get" => IsString(workers[w].item)

\* What becomes of the delayed re-enqueue: the item the "processing" branch
\* added is the Route object, and the worker that takes it panics in
\* "key.(string)" before handle is called.
C32_ObjectItemPanics ==
    [][\A w \in Workers :
          (workers[w] = AtGet /\ workers'[w] # AtGet /\ ~IsString(workers'[w].item))
          => workers'[w] = Panicking(ObjectItem)]_vars

====
